---- MODULE Spec2Model ----
(***************************************************************************)
(* Model of the latte-test runner: the test registry (src/index.js), the   *)
(* TestRunner (src/runner.js) and the browser lifecycle of a BrowserApp    *)
(* session (src/browser-app.js).                                           *)
(***************************************************************************)
EXTENDS Integers, Sequences, FiniteSets, TLC

\* ---------------------------------------------------------------- bounds
MaxTests == 2        \* declarations registered before a run
MaxOps == 1          \* session operations one test body issues

\* ------------------------------------------------------- program constants
DefaultTimeout == 5000

\* ------------------------------------------------------------ JS values
Null == 0                 \* null reference (browser, page)
KeyAbsent == -1           \* options object without this key
NoError == "<absent>"     \* a result object without the error key
JsUndefined == "undefined"

Descriptions == {"a", "b"}
Urls == {"u"}
WaitTimes == {2}          \* app.wait(ms) arguments: longer than a timeout of 1

\* the options objects handed to latte(); a hook is described by what the
\* function does when it is called
PlainOptions ==
    [startBy |-> "absent", finishBy |-> "absent", timeout |-> KeyAbsent]
HookOptions ==
    [startBy |-> "returns", finishBy |-> "returns", timeout |-> 1]
FailingHookOptions ==
    [startBy |-> "throws", finishBy |-> "throws", timeout |-> 1]

\* the declarations a test file makes: <<description, options>>
Declarations ==
    { <<"a", PlainOptions>>, <<"b", PlainOptions>>,
      <<"a", HookOptions>>, <<"b", FailingHookOptions>> }

\* what a test body may throw
ErrBoom == [kind |-> "Error", message |-> "boom"]
ErrClose == [kind |-> "Error", message |-> "close failed"]
ErrOpen == [kind |-> "Error", message |-> "Failed to open"]
ThrownValues == {ErrBoom, [kind |-> "string", message |-> ""], [kind |-> "null", message |-> ""]}

VARIABLES
    tests,       \* index.js: the global registry
    pc,          \* position of runTests/runAll/runSingle
    idx,         \* runAll: position of the for-of iterator in tests
    results,     \* TestRunner.results
    passed,      \* runAll: let passed
    failed,      \* runAll: let failed
    app,         \* runSingle: let app (the BrowserApp of the running test)
    caught,      \* runSingle: the error bound by catch
    elapsed,     \* Date.now() - startTime of the running test
    ops,         \* session operations issued by the running body
    sessions,    \* number of BrowserApp objects constructed
    browsers,    \* every browser puppeteer launched: state and close() calls
    calls,       \* every invocation of a user callback, in order
    outcome,     \* settlement of the promise runAll returned
    cli,         \* bin/latte.js: LatteCLI and the child process it spawned
    page,        \* the elements of the document the session's page shows
    history,     \* the documents the page showed since the pending call began
    find,        \* browser-app.js: the pending findElement call
    look         \* browser-app.js: the pending see call

runnerVars == <<tests, pc, idx, results, passed, failed, app, caught, elapsed,
                ops, sessions, browsers, calls, outcome>>
cliVars == <<cli>>
pageVars == <<page, history, find, look>>

vars == <<tests, pc, idx, results, passed, failed, app, caught, elapsed, ops,
          sessions, browsers, calls, outcome, cli, page, history, find, look>>

NoApp == [id |-> 0, browser |-> Null, page |-> Null, logs |-> <<>>,
          timeout |-> 0]
NoCaught == [kind |-> "none", message |-> ""]
NoCli == [pc |-> "none"]       \* no CLI process
NoFind == [pc |-> "idle"]      \* no findElement call pending
NoLook == [pc |-> "idle"]      \* no see call pending

\* ---------------------------------------------------------- browser-app.js
\* constructor: timeout: options.timeout || 5000, then ...options
EffectiveTimeout(options) ==
    IF options.timeout = KeyAbsent THEN DefaultTimeout ELSE options.timeout

\* a runner that hands the first session to every test
ReusedBrowserApp(id, options) ==
    [id |-> 1, browser |-> Null, page |-> Null, logs |-> <<>>,
     timeout |-> EffectiveTimeout(options)]

NewBrowserApp(id, options) ==
    [id |-> id, browser |-> Null, page |-> Null, logs |-> <<>>,
     timeout |-> EffectiveTimeout(options)]

log(a, message) == [a EXCEPT !.logs = Append(@, message)]

\* ---------------------------------------------------------------- runner.js
\* error.message as the catch block of runSingle reads it
ErrorMessage(error) ==
    IF error.kind = "Error" THEN error.message ELSE JsUndefined

PassedResult(test, duration) ==
    [description |-> test.description, passed |-> TRUE, error |-> NoError,
     duration |-> duration, group |-> test.group]

FailedResult(test, error, duration) ==
    [description |-> test.description, passed |-> FALSE,
     error |-> ErrorMessage(error), duration |-> duration,
     group |-> test.group]

\* a runner that keeps only the results of passing tests
PushPassedOnly(rs, result) == IF result.passed THEN Append(rs, result) ELSE rs

\* a runner that puts each new result in front of the earlier ones
PushFront(rs, result) == <<result>> \o rs

\* runAll: this.results.push(result)
PushResult(rs, result) == Append(rs, result)

RunnerInit ==
    /\ tests = <<>>
    /\ pc = "idle"
    /\ idx = 0
    /\ results = <<>>
    /\ passed = 0
    /\ failed = 0
    /\ app = NoApp
    /\ caught = NoCaught
    /\ elapsed = 0
    /\ ops = 0
    /\ sessions = 0
    /\ browsers = <<>>
    /\ calls = <<>>
    /\ outcome = "pending"

Init ==
    /\ RunnerInit
    /\ cli = NoCli
    /\ page = {}
    /\ history = <<>>
    /\ find = NoFind
    /\ look = NoLook

\* a latte() that runs the test body as soon as it is declared
latteEager(description, options) ==
    /\ pc = "idle"
    /\ Len(tests) < MaxTests
    /\ tests' = Append(tests, [description |-> description, group |-> "null",
                               options |-> options])
    /\ calls' = Append(calls, [test |-> Len(tests) + 1, fn |-> "testFn",
                               session |-> 0, settled |-> "pending",
                               threw |-> NoCaught])
    /\ UNCHANGED <<pc, idx, results, passed, failed, app, caught, elapsed,
                   ops, sessions, browsers, outcome>>
    /\ UNCHANGED <<cliVars, pageVars>>

\* index.js latte(description, testFn, options)
latte(description, options) ==
    /\ pc = "idle"
    /\ Len(tests) < MaxTests
    /\ tests' = Append(tests, [description |-> description, group |-> "null",
                               options |-> options])
    /\ UNCHANGED <<pc, idx, results, passed, failed, app, caught, elapsed,
                   ops, sessions, browsers, calls, outcome>>
    /\ UNCHANGED <<cliVars, pageVars>>

\* index.js runTests -> runner.runAll(tests), up to the for-of loop
runAll ==
    /\ pc = "idle"
    /\ results' = <<>>
    /\ passed' = 0
    /\ failed' = 0
    /\ idx' = 0
    /\ pc' = "loop"
    /\ UNCHANGED <<tests, app, caught, elapsed, ops, sessions, browsers,
                   calls, outcome>>
    /\ UNCHANGED <<cliVars, pageVars>>

\* runAll: the iterator yields the next test; runSingle constructs the
\* session and calls test.testFn(app)
runSingle ==
    /\ pc = "loop"
    /\ idx < Len(tests)
    /\ idx' = idx + 1
    /\ sessions' = sessions + 1
    /\ app' = NewBrowserApp(sessions + 1, tests[idx + 1].options)
    /\ elapsed' = 0
    /\ ops' = 0
    /\ caught' = NoCaught
    /\ calls' = Append(calls, [test |-> idx + 1, fn |-> "testFn",
                               session |-> app'.id, settled |-> "pending",
                               threw |-> NoCaught])
    /\ pc' = "body"
    /\ UNCHANGED <<tests, results, passed, failed, browsers, outcome>>
    /\ UNCHANGED <<cliVars, pageVars>>

\* runAll: the iterator is exhausted; the summary is returned
runAllReturn ==
    /\ pc = "loop"
    /\ idx >= Len(tests)
    /\ pc' = "returned"
    /\ outcome' = "fulfilled"
    /\ UNCHANGED <<tests, idx, results, passed, failed, app, caught, elapsed,
                   ops, sessions, browsers, calls>>
    /\ UNCHANGED <<cliVars, pageVars>>

\* browser-app.js init(): launch a browser unless the session holds one
init(a) ==
    IF a.browser = Null
    THEN log([a EXCEPT !.browser = Len(browsers) + 1,
                       !.page = Len(browsers) + 1], "Browser initialized")
    ELSE a

Launched(a) ==
    IF a.browser = Null
    THEN Append(browsers, [state |-> "open", closeCalls |-> 0,
                           session |-> a.id])
    ELSE browsers

\* the promise of the running callback settles
Settle(cs, how, value) ==
    [cs EXCEPT ![Len(cs)].settled = how, ![Len(cs)].threw = value]

\* browser-app.js open(url), awaited by the body; a failed navigation throws
\* and the body lets the error propagate
open(url, ok) ==
    /\ pc = "body"
    /\ ops < MaxOps
    /\ ops' = ops + 1
    /\ browsers' = Launched(app)
    /\ IF ok
       THEN /\ app' = log(log(init(app), "Opening"), "Opened")
            /\ UNCHANGED <<pc, caught, calls>>
       ELSE /\ app' = log(log(init(app), "Opening"), "Failed to open")
            /\ caught' = ErrOpen
            /\ calls' = Settle(calls, "threw", ErrOpen)
            /\ pc' = "catch"
    /\ UNCHANGED <<tests, idx, results, passed, failed, elapsed, sessions,
                   outcome>>
    /\ UNCHANGED <<cliVars, pageVars>>

\* browser-app.js wait(ms), awaited by the body
wait(ms) ==
    /\ pc = "body"
    /\ ops < MaxOps
    /\ ops' = ops + 1
    /\ app' = log(app, "Waiting")
    /\ elapsed' = elapsed + ms
    /\ UNCHANGED <<tests, pc, idx, results, passed, failed, caught, sessions,
                   browsers, calls, outcome>>
    /\ UNCHANGED <<cliVars, pageVars>>

\* the promise of test.testFn(app) fulfils
BodyReturns ==
    /\ pc = "body"
    /\ pc' = "cleanup"
    /\ calls' = Settle(calls, "returned", NoCaught)
    /\ UNCHANGED <<tests, idx, results, passed, failed, app, caught, elapsed,
                   ops, sessions, browsers, outcome>>
    /\ UNCHANGED <<cliVars, pageVars>>

\* the promise of test.testFn(app) rejects with a value the body threw
BodyThrows(value) ==
    /\ pc = "body"
    /\ caught' = value
    /\ calls' = Settle(calls, "threw", value)
    /\ pc' = "catch"
    /\ UNCHANGED <<tests, idx, results, passed, failed, app, elapsed, ops,
                   sessions, browsers, outcome>>
    /\ UNCHANGED <<cliVars, pageVars>>

\* the promise of test.testFn(app) never settles
BodyHangs ==
    /\ pc = "body"
    /\ pc' = "hung"
    /\ UNCHANGED <<tests, idx, results, passed, failed, app, caught, elapsed,
                   ops, sessions, browsers, calls, outcome>>
    /\ UNCHANGED <<cliVars, pageVars>>

\* browser.close() outcomes: it closes the browser, or it throws having
\* closed it or not
CloseOutcomes == {"ok", "throwsClosed", "throwsOpen"}

CloseCalled(b, how) ==
    [browsers EXCEPT ![b].closeCalls = @ + 1,
                     ![b].state = IF how = "throwsOpen" THEN @ ELSE "closed"]

\* browser-app.js cleanup() when browser.close() fulfils
Cleaned(a) ==
    log([a EXCEPT !.browser = Null, !.page = Null], "Browser closed")

\* runSingle returns, its locals go out of scope; runAll pushes the result
\* and counts it
Record(result) ==
    /\ results' = PushResult(results, result)
    /\ IF result.passed
       THEN passed' = passed + 1 /\ UNCHANGED failed
       ELSE failed' = failed + 1 /\ UNCHANGED passed
    /\ pc' = "loop"
    /\ app' = NoApp
    /\ caught' = NoCaught
    /\ elapsed' = 0
    /\ ops' = 0

\* runSingle, try block after the body: await app.cleanup()
cleanupTry(how) ==
    /\ pc = "cleanup"
    /\ IF app.browser = Null
       THEN /\ how = "ok"
            /\ pc' = "passed"
            /\ UNCHANGED <<app, caught, browsers>>
       ELSE /\ browsers' = CloseCalled(app.browser, how)
            /\ IF how = "ok"
               THEN /\ app' = Cleaned(app)
                    /\ pc' = "passed"
                    /\ UNCHANGED caught
               ELSE /\ caught' = ErrClose
                    /\ pc' = "catch"
                    /\ UNCHANGED app
    /\ UNCHANGED <<tests, idx, results, passed, failed, elapsed, ops,
                   sessions, calls, outcome>>
    /\ UNCHANGED <<cliVars, pageVars>>

\* runSingle, try block: return the passed result
returnPassed ==
    /\ pc = "passed"
    /\ Record(PassedResult(tests[idx], elapsed))
    /\ UNCHANGED <<tests, idx, sessions, browsers, calls, outcome>>
    /\ UNCHANGED <<cliVars, pageVars>>

\* runSingle, catch block: if (app) await app.cleanup(); a throw in the
\* catch block rejects runSingle, and with it runAll
cleanupCatch(how) ==
    /\ pc = "catch"
    /\ IF app.browser = Null
       THEN /\ how = "ok"
            /\ pc' = "failed"
            /\ UNCHANGED <<app, browsers, outcome>>
       ELSE /\ browsers' = CloseCalled(app.browser, how)
            /\ IF how = "ok"
               THEN /\ app' = Cleaned(app)
                    /\ pc' = "failed"
                    /\ UNCHANGED outcome
               ELSE /\ pc' = "rejected"
                    /\ outcome' = "rejected"
                    /\ UNCHANGED app
    /\ UNCHANGED <<tests, idx, results, passed, failed, caught, elapsed, ops,
                   sessions, calls>>
    /\ UNCHANGED <<cliVars, pageVars>>

\* reading .message of null is a TypeError
HasMessageProperty(error) == error.kind # "null"

\* runSingle, catch block: return the failed result built from
\* error.message
returnFailed ==
    /\ pc = "failed"
    /\ IF HasMessageProperty(caught)
       THEN /\ Record(FailedResult(tests[idx], caught, elapsed))
            /\ UNCHANGED outcome
       ELSE /\ pc' = "rejected"
            /\ outcome' = "rejected"
            /\ UNCHANGED <<results, passed, failed, app, caught, elapsed, ops>>
    /\ UNCHANGED <<tests, idx, sessions, browsers, calls>>
    /\ UNCHANGED <<cliVars, pageVars>>

Next ==
    \/ \E d \in Declarations : latte(d[1], d[2])
    \/ runAll
    \/ runSingle
    \/ runAllReturn
    \/ \E u \in Urls, ok \in BOOLEAN : open(u, ok)
    \/ \E ms \in WaitTimes : wait(ms)
    \/ BodyReturns
    \/ \E v \in ThrownValues : BodyThrows(v)
    \/ BodyHangs
    \/ \E how \in CloseOutcomes : cleanupTry(how)
    \/ returnPassed
    \/ \E how \in CloseOutcomes : cleanupCatch(how)
    \/ returnFailed

Spec == Init /\ [][Next]_vars

TypeOK ==
    /\ pc \in {"idle", "loop", "body", "cleanup", "passed", "catch", "failed",
               "hung", "returned", "rejected"}
    /\ idx \in 0..Len(tests)
    /\ passed \in Nat /\ failed \in Nat
    /\ outcome \in {"pending", "fulfilled", "rejected"}

\* ------------------------------------------------------------------ claims
Running == {"body", "cleanup", "passed", "catch", "failed", "hung"}

Count(rs, d) == Cardinality({i \in DOMAIN rs : rs[i].description = d})
PassedCount == Cardinality({i \in DOMAIN results : results[i].passed})
FailedCount == Cardinality({i \in DOMAIN results : ~results[i].passed})

\* the invocations of callback fn made for test i
CallsOf(i, fn) == {k \in DOMAIN calls : calls[k].test = i /\ calls[k].fn = fn}

\* C1: once runAll has returned, results holds exactly one Test Result per
\* declared test (as many results of each description as declarations, none
\* missing, none duplicated) and passed + failed is the number of declared
\* tests, whatever bodies passed or threw.
OneResultPerTest ==
    pc = "returned" =>
        /\ Len(results) = Len(tests)
        /\ \A d \in Descriptions : Count(results, d) = Count(tests, d)
        /\ passed + failed = Len(tests)
        /\ passed = PassedCount
        /\ failed = FailedCount

OneResultPerTestWitness ==
    /\ pc = "returned"
    /\ Len(tests) = 2
    /\ passed = 1
    /\ failed = 1

\* C11: a step that changes the registry appends exactly one declaration and
\* leaves the earlier declarations as they were; it invokes no body and no
\* hook, constructs no session, launches no browser and records no result.
DeclaringOnlyAppends ==
    [][tests' # tests =>
          /\ Len(tests') = Len(tests) + 1
          /\ SubSeq(tests', 1, Len(tests)) = tests
          /\ calls' = calls
          /\ sessions' = sessions
          /\ browsers' = browsers
          /\ app' = app
          /\ results' = results
          /\ pc' = pc]_vars

DeclaringWitness ==
    /\ pc = "idle"
    /\ Len(tests) = 2
    /\ calls = <<>>
    /\ sessions = 0

\* C2: no test declared with finishBy has its result recorded without
\* finishBy having been invoked for it.
FinishByAlwaysRuns ==
    \A i \in DOMAIN results :
        tests[i].options.finishBy # "absent" => CallsOf(i, "finishBy") # {}

\* C3: a test whose startBy succeeds and whose body throws an Error is
\* recorded Failed with the body's message, and its finishBy has run.
BodyErrorKeptAndFinishByRuns ==
    \A i \in DOMAIN results :
        \A k \in CallsOf(i, "testFn") :
            (tests[i].options.startBy = "returns" /\ calls[k].threw.kind = "Error")
            => /\ ~results[i].passed
               /\ results[i].error = calls[k].threw.message
               /\ tests[i].options.finishBy # "absent"
                      => CallsOf(i, "finishBy") # {}

\* C4: the body of a test declared with startBy starts only after startBy
\* was invoked with the same session and has completed.
StartByBeforeBody ==
    \A k \in DOMAIN calls :
        (calls[k].fn = "testFn" /\ tests[calls[k].test].options.startBy # "absent")
        => \E j \in 1..(k - 1) :
               /\ calls[j].fn = "startBy"
               /\ calls[j].test = calls[k].test
               /\ calls[j].session = calls[k].session
               /\ calls[j].settled = "returned"

\* C5: a test whose startBy throws is recorded Failed, and its finishBy
\* (when present) has run.
StartByFailureFailsTest ==
    \A i \in DOMAIN results :
        tests[i].options.startBy = "throws"
        => /\ ~results[i].passed
           /\ tests[i].options.finishBy # "absent"
                  => CallsOf(i, "finishBy") # {}

\* C6: a test whose body ran longer than its timeout is recorded Failed with
\* a timeout-specific message.
TimeoutMessage == "Test timed out"

BodyTimeoutFailsTest ==
    \A i \in DOMAIN results :
        results[i].duration > EffectiveTimeout(tests[i].options)
        => /\ ~results[i].passed
           /\ results[i].error = TimeoutMessage

\* C7: when a test's result is recorded, every browser its session launched
\* has had close() called exactly once and is closed.
BrowserClosedExactlyOnce ==
    \A b \in DOMAIN browsers :
        (\E k \in DOMAIN calls :
            /\ calls[k].session = browsers[b].session
            /\ calls[k].test <= Len(results))
        => /\ browsers[b].closeCalls = 1
           /\ browsers[b].state = "closed"

\* C8: runAll never rejects, whatever a body throws and whatever happens
\* while its session is released.
RunAllNeverRejects == outcome # "rejected"

\* C9: tests run one after the other in declaration order: while test i
\* runs, the results of tests 1..i-1 are recorded, their bodies have settled
\* and their browsers are closed; results are in declaration order.
SequentialInDeclarationOrder ==
    /\ \A k \in DOMAIN calls : calls[k].test = k
    /\ pc \in Running =>
           /\ Len(results) = idx - 1
           /\ \A k \in 1..(Len(calls) - 1) : calls[k].settled # "pending"
           /\ \A b \in DOMAIN browsers :
                  browsers[b].session # app.id => browsers[b].state = "closed"
    /\ \A i \in DOMAIN results :
           /\ i <= Len(tests)
           /\ results[i].description = tests[i].description

SequentialWitness ==
    /\ pc = "body"
    /\ idx = 2
    /\ Len(results) = 1
    /\ tests[1].description # tests[2].description
    /\ Len(browsers) = 1

\* C10: no two test executions receive the same session, and at every
\* moment at most one browser is open.
FreshSessionPerTest ==
    /\ \A j, k \in DOMAIN calls : j # k => calls[j].session # calls[k].session
    /\ \A b \in DOMAIN browsers :
           browsers[b].state = "open" => browsers[b].session = app.id
    /\ Cardinality({b \in DOMAIN browsers : browsers[b].state = "open"}) <= 1

FreshSessionWitness ==
    /\ pc = "body"
    /\ Len(calls) = 2
    /\ Len(browsers) = 2
    /\ app.browser = 2
    /\ browsers[2].state = "open"


\* ---------------------------------------------------------------------------
\* bin/latte.js: the command-line runner (LatteCLI, lines 23-253)
\* ---------------------------------------------------------------------------

MaxFiles == 2

\* the text runTestFile looks for in the child's output
StdoutFailureMarker == "Some tests failed"
StderrFailureMarkers == {"Error:", "AssertionError"}

\* bin/latte.js 212-214
HasTestFailures(stdout, stderr) ==
    \/ StdoutFailureMarker \in stdout
    \/ StderrFailureMarkers \cap stderr # {}

\* bin/latte.js 216-222: which counter the close handler increments
Counted(stdout, stderr, code) ==
    IF HasTestFailures(stdout, stderr) \/ code # 0 THEN "failed" ELSE "passed"

\* bin/latte.js 217-221, 228-229
Tally(totalResults, how) ==
    IF how = "passed"
    THEN [totalResults EXCEPT !.passed = @ + 1, !.total = @ + 1]
    ELSE [totalResults EXCEPT !.failed = @ + 1, !.total = @ + 1]

\* new LatteCLI() about to enter the loop of run() over `files` test files
CliInit ==
    /\ RunnerInit
    /\ \E n \in 1..MaxFiles :
          cli = [pc |-> "loop", files |-> n, file |-> 1,
                 stdout |-> {}, stderr |-> {}, code |-> 0,
                 totalResults |-> [passed |-> 0, failed |-> 0, total |-> 0],
                 log |-> <<>>, exit |-> "running"]
    /\ page = {}
    /\ history = <<>>
    /\ find = NoFind
    /\ look = NoLook

\* bin/latte.js 185-197: spawn `npx tsx file`; the child is a new process, so
\* the registry of src/index.js starts empty in it
spawn ==
    /\ cli.pc = "loop"
    /\ cli.file <= cli.files
    /\ cli' = [cli EXCEPT !.pc = "child", !.stdout = {}, !.stderr = {}]
    /\ tests' = <<>>
    /\ UNCHANGED <<pc, idx, results, passed, failed, app, caught, elapsed,
                   ops, sessions, browsers, calls, outcome, pageVars>>

\* bin/latte.js 226-231: the child could not be spawned
spawnError ==
    /\ cli.pc = "loop"
    /\ cli.file <= cli.files
    /\ cli' = [cli EXCEPT
                 !.totalResults = Tally(@, "failed"),
                 !.log = Append(@, [declared |-> 0, executed |-> 0,
                                    counted |-> "failed", code |-> -1]),
                 !.file = @ + 1]
    /\ UNCHANGED <<runnerVars, pageVars>>

\* the test file's top level calls latte(description, testFn, options)
fileDeclares(d) ==
    /\ cli.pc = "child"
    /\ latte(d[1], d[2])

\* the test file's top level throws: node prints the error on stderr and
\* exits with code 1
fileThrows ==
    /\ cli.pc = "child"
    /\ cli' = [cli EXCEPT !.pc = "exited", !.code = 1,
                          !.stderr = @ \cup {"Error:"}]
    /\ UNCHANGED <<runnerVars, pageVars>>

\* the test file's top level ends; src/index.js (1-70) schedules nothing, so
\* the child has no work left and exits with code 0
fileEnds ==
    /\ cli.pc = "child"
    /\ cli' = [cli EXCEPT !.pc = "exited", !.code = 0]
    /\ UNCHANGED <<runnerVars, pageVars>>

\* bin/latte.js 210-224: child.on('close')
close ==
    /\ cli.pc = "exited"
    /\ LET how == Counted(cli.stdout, cli.stderr, cli.code)
           ran == {k \in DOMAIN calls : calls[k].fn = "testFn"}
       IN cli' = [cli EXCEPT
                    !.pc = "loop",
                    !.totalResults = Tally(@, how),
                    !.log = Append(@, [declared |-> Len(tests),
                                       executed |-> Cardinality(ran),
                                       counted |-> how, code |-> cli.code]),
                    !.file = @ + 1]
    /\ UNCHANGED <<runnerVars, pageVars>>

\* bin/latte.js 235-245
showFinalSummary ==
    /\ cli.pc = "loop"
    /\ cli.file > cli.files
    /\ cli' = [cli EXCEPT !.pc = "done",
                 !.exit = IF cli.totalResults.failed > 0 THEN "1" ELSE "0"]
    /\ UNCHANGED <<runnerVars, pageVars>>

CliNext ==
    \/ spawn
    \/ spawnError
    \/ \E d \in Declarations : fileDeclares(d)
    \/ fileThrows
    \/ fileEnds
    \/ close
    \/ showFinalSummary

SpecCli == CliInit /\ [][CliNext]_vars

\* C12: a file that the CLI has run to a normal end had every test it
\* declared executed, is counted failed when one of its tests failed, and is
\* not counted passed when it declared tests of which none was executed.
CliRunsDeclaredTests ==
    \A f \in DOMAIN cli.log :
        LET r == cli.log[f] IN
        /\ r.code = 0 => r.executed = r.declared
        /\ failed > 0 => r.counted = "failed"
        /\ (r.declared > 0 /\ r.executed = 0) => r.counted # "passed"


\* ---------------------------------------------------------------------------
\* browser-app.js findElement (300-370) and click (83-94)
\* ---------------------------------------------------------------------------
\* Strings are sequences of chunks; a chunk is a character or a run of
\* characters that the code never splits.  A token is the string given to
\* click(); a selector is a string handed to page.waitForSelector.

MaxChanges == 1

Tokens == {<<"x">>, <<"submit">>, <<"Confirm">>, <<"#", "x">>, <<"2">>}

\* chunks that are CSS identifiers; "2" is not (an identifier cannot start
\* with a digit)
Idents == {"x", "submit", "Confirm", "button", "input", "div", "form", "h1",
           "p", "btn", "tip", "Hello", "hello", "zzz", "hi"}

\* browser-app.js 302
SelectorChars == {"[", ".", "#", " ", ">"}

\* a findElement that never tries the token itself first
NeverLooksLikeSelector(selector) == FALSE

LooksLikeSelector(selector) ==
    \E i \in DOMAIN selector : selector[i] \in SelectorChars

\* `[name="${selector}"]`
AttrSelector(name, selector) == <<"[", name, "=\"">> \o selector \o <<"\"]">>
\* `#${selector}` and `.${selector}`
IdSelector(selector) == <<"#">> \o selector
ClassSelector(selector) == <<".">> \o selector
\* 'button[type="submit"]'
SemanticSelector == <<"button">> \o AttrSelector("type", <<"submit">>)
\* `${strategy}:not([disabled])`
NotDisabled(strategy) == strategy \o <<":not([disabled])">>

\* browser-app.js 312-335 with aria-label tried before name
StrategiesAriaFirst(selector) ==
    (IF selector = <<"submit">> \/ selector = <<"Confirm">>
     THEN <<SemanticSelector>> ELSE <<>>)
    \o << AttrSelector("data-testid", selector),
          AttrSelector("data-test-id", selector),
          AttrSelector("data-cy", selector),
          AttrSelector("aria-label", selector),
          IdSelector(selector),
          AttrSelector("name", selector),
          AttrSelector("aria-labelledby", selector),
          AttrSelector("placeholder", selector),
          AttrSelector("title", selector),
          ClassSelector(selector),
          AttrSelector("role", selector),
          selector >>

\* browser-app.js 312-335 with the semantic shortcut tried last
StrategiesSemanticLast(selector) ==
    << AttrSelector("data-testid", selector),
       AttrSelector("data-test-id", selector),
       AttrSelector("data-cy", selector),
       AttrSelector("name", selector),
       IdSelector(selector),
       AttrSelector("aria-label", selector),
       AttrSelector("aria-labelledby", selector),
       AttrSelector("placeholder", selector),
       AttrSelector("title", selector),
       ClassSelector(selector),
       AttrSelector("role", selector),
       selector >>
    \o (IF selector = <<"submit">> \/ selector = <<"Confirm">>
        THEN <<SemanticSelector>> ELSE <<>>)

\* browser-app.js 312-335: the candidates in order, the null entry filtered out
Strategies(selector) ==
    (IF selector = <<"submit">> \/ selector = <<"Confirm">>
     THEN <<SemanticSelector>> ELSE <<>>)
    \o << AttrSelector("data-testid", selector),
          AttrSelector("data-test-id", selector),
          AttrSelector("data-cy", selector),
          AttrSelector("name", selector),
          IdSelector(selector),
          AttrSelector("aria-label", selector),
          AttrSelector("aria-labelledby", selector),
          AttrSelector("placeholder", selector),
          AttrSelector("title", selector),
          ClassSelector(selector),
          AttrSelector("role", selector),
          selector >>

\* ------------------------------------------------------------ the page's DOM
\* An element has a tag, one identifying attribute and may carry `disabled`.
Element(tag, attr, value, disabled) ==
    [tag |-> tag, attr |-> attr, value |-> value, disabled |-> disabled]

Elements ==
    { Element("input", "name", <<"x">>, FALSE),
      Element("input", "name", <<"x">>, TRUE),
      Element("div", "aria-label", <<"x">>, FALSE),
      Element("div", "id", <<"x">>, FALSE),
      Element("div", "data-testid", <<"x">>, FALSE),
      Element("input", "name", <<"submit">>, FALSE),
      Element("button", "type", <<"submit">>, FALSE) }

\* What the browser makes of a selector string: the optional tag, the
\* optional #id / .class / [attr="value"] part and the optional
\* :not([disabled]) suffix; anything else is a syntax error.
ParseSelector(sel) ==
    LET enabledOnly == Len(sel) > 0 /\ sel[Len(sel)] = ":not([disabled])"
        base == IF enabledOnly THEN SubSeq(sel, 1, Len(sel) - 1) ELSE sel
        hasTag == Len(base) > 0 /\ base[1] \in Idents
        rest == IF hasTag THEN Tail(base) ELSE base
        n == Len(rest)
        isAttr == /\ n >= 4
                  /\ rest[1] = "["
                  /\ rest[2] \notin SelectorChars
                  /\ rest[3] = "=\""
                  /\ rest[n] = "\"]"
        isId == n = 2 /\ rest[1] = "#" /\ rest[2] \in Idents
        isClass == n = 2 /\ rest[1] = "." /\ rest[2] \in Idents
    IN [ valid |-> (hasTag /\ n = 0) \/ isAttr \/ isId \/ isClass,
         tag |-> IF hasTag THEN base[1] ELSE "*",
         attr |-> IF isAttr THEN rest[2]
                  ELSE IF isId THEN "id"
                  ELSE IF isClass THEN "class" ELSE "*",
         value |-> IF isAttr THEN SubSeq(rest, 4, n - 1)
                   ELSE IF isId \/ isClass THEN <<rest[2]>> ELSE <<>>,
         enabledOnly |-> enabledOnly ]

ValidSelector(sel) == ParseSelector(sel).valid

\* element.matches(sel) for a valid selector
Matches(e, sel) ==
    LET p == ParseSelector(sel) IN
    /\ p.valid
    /\ p.tag \in {"*", e.tag}
    /\ p.attr = "*" \/ (p.attr = e.attr /\ p.value = e.value)
    /\ p.enabledOnly => ~e.disabled

\* document.querySelector(sel) !== null
QuerySelector(dom, sel) == \E e \in dom : Matches(e, sel)


\* ------------------------------------------------- the probes of findElement
DirectProbeTimeout == 1000
EnabledProbeTimeout == 2000
ExistsProbeTimeout == 1000
FinalTestidTimeout == 8000
FinalAriaTimeout == 3000

Probe(stage, probe, returns, timeout) ==
    [stage |-> stage, probe |-> probe, returns |-> returns,
     timeout |-> timeout]

\* browser-app.js 302-309
DirectProbes(selector) ==
    IF LooksLikeSelector(selector)
    THEN <<Probe("direct", selector, selector, DirectProbeTimeout)>>
    ELSE <<>>

\* a candidate probed allowing disabled elements first
CandidateProbesExistsFirst(strategy) ==
    << Probe("exists", strategy, strategy, ExistsProbeTimeout),
       Probe("enabled", NotDisabled(strategy), strategy,
             EnabledProbeTimeout) >>

\* browser-app.js 339-351: the two waitForSelector calls of one loop round
CandidateProbes(strategy) ==
    << Probe("enabled", NotDisabled(strategy), strategy,
             EnabledProbeTimeout),
       Probe("exists", strategy, strategy, ExistsProbeTimeout) >>

\* a findElement without the two final attempts
NoFinalProbes(selector) == <<>>

\* browser-app.js 338-352: each candidate excluding disabled elements, then
\* allowing them
RECURSIVE StrategyProbes(_)
StrategyProbes(strategies) ==
    IF strategies = <<>> THEN <<>>
    ELSE CandidateProbes(Head(strategies))
         \o StrategyProbes(Tail(strategies))

\* browser-app.js 355-366
FinalProbes(selector) ==
    << Probe("final", AttrSelector("data-testid", selector),
             AttrSelector("data-testid", selector), FinalTestidTimeout),
       Probe("final", AttrSelector("aria-label", selector),
             AttrSelector("aria-label", selector), FinalAriaTimeout) >>

\* the waitForSelector calls of findElement(selector) in the order the code
\* reaches them; each is reached only when all before it have failed
Probes(selector) ==
    DirectProbes(selector) \o StrategyProbes(Strategies(selector))
        \o FinalProbes(selector)

\* browser-app.js 369
ElementNotFound == "Element not found. Searched using data-testid, name, aria-label, id, and other common selectors."
ClickFailed == "Failed to click"

\* a session after init(): browser launched, page open (browser-app.js 19-32)
ActiveSession ==
    log([NewBrowserApp(1, PlainOptions) EXCEPT !.browser = 1, !.page = 1],
        "Browser initialized")

ActiveInit ==
    /\ tests = <<>> /\ pc = "idle" /\ idx = 0 /\ results = <<>>
    /\ passed = 0 /\ failed = 0 /\ caught = NoCaught /\ elapsed = 0
    /\ ops = 0 /\ calls = <<>> /\ outcome = "pending"
    /\ sessions = 1
    /\ app = ActiveSession
    /\ browsers = <<[state |-> "open", closeCalls |-> 0, session |-> 1]>>
    /\ cli = NoCli

\* an initialised session showing some page, no operation pending
FindInit ==
    /\ ActiveInit
    /\ page \in SUBSET Elements
    /\ history = [stable |-> page, ever |-> page, changes |-> 0]
    /\ find = NoFind
    /\ look = NoLook

\* browser-app.js 83-84: click(selector) calls findElement(selector), which
\* starts with its first waitForSelector
click(selector) ==
    /\ find.pc = "idle"
    /\ find' = [op |-> "click", pc |-> "probing", selector |-> selector,
                probes |-> Probes(selector), k |-> 1, tried |-> <<>>,
                waited |-> 0, result |-> <<>>, error |-> NoError]
    /\ history' = [stable |-> page, ever |-> page, changes |-> 0]
    /\ UNCHANGED <<runnerVars, cliVars, page, look>>

\* the probe findElement is waiting on
CurrentProbe == find.probes[find.k]

Tried(how) ==
    Append(find.tried, [stage |-> CurrentProbe.stage,
                        probe |-> CurrentProbe.probe,
                        returns |-> CurrentProbe.returns,
                        timeout |-> CurrentProbe.timeout,
                        outcome |-> how])

\* a findElement that gives up at the first probe that fails
FailedAtOnce(how, spent) ==
    [find EXCEPT !.pc = "thrown", !.tried = Tried(how),
                 !.waited = @ + spent, !.error = ElementNotFound]

\* the catch blocks of findElement: go on to the next waitForSelector, or
\* throw at line 369 when there is none left
Failed(how, spent) ==
    IF find.k < Len(find.probes)
    THEN [find EXCEPT !.k = @ + 1, !.tried = Tried(how),
                      !.waited = @ + spent]
    ELSE [find EXCEPT !.pc = "thrown", !.tried = Tried(how),
                      !.waited = @ + spent, !.error = ElementNotFound]

\* a probe that resolves for any selector, matching or not
ProbeSeesAnything(dom, sel) == ValidSelector(sel)

\* waitForSelector resolves: an element matching the probed selector is there
ProbeSees(dom, sel) == QuerySelector(dom, sel)

\* browser-app.js 304-305, 341-342, 346-347, 357-358, 362-363
probeResolves ==
    /\ find.pc = "probing"
    /\ ProbeSees(page, CurrentProbe.probe)
    /\ find' = [find EXCEPT !.pc = "returned", !.tried = Tried("found"),
                            !.result = CurrentProbe.returns]
    /\ UNCHANGED <<runnerVars, cliVars, page, history, look>>

\* waitForSelector rejects with a TimeoutError after its timeout
probeTimesOut ==
    /\ find.pc = "probing"
    /\ ValidSelector(CurrentProbe.probe)
    /\ ~ProbeSees(page, CurrentProbe.probe)
    /\ find' = Failed("timeout", CurrentProbe.timeout)
    /\ UNCHANGED <<runnerVars, cliVars, page, history, look>>

\* waitForSelector rejects at once: the page's querySelector throws a
\* SyntaxError for a string that is not a selector
probeRejects ==
    /\ find.pc = "probing"
    /\ ~ValidSelector(CurrentProbe.probe)
    /\ find' = Failed("invalid", 0)
    /\ UNCHANGED <<runnerVars, cliVars, page, history, look>>

\* browser-app.js 85-93: the rest of click() once findElement has returned
pageClick ==
    /\ find.pc = "returned"
    /\ find.op = "click"
    /\ IF QuerySelector(page, find.result)
       THEN /\ find' = [find EXCEPT !.pc = "clicked"]
            /\ app' = log(log(app, "Clicking"), "Clicked")
       ELSE /\ find' = [find EXCEPT !.pc = "clickFailed",
                                    !.error = ClickFailed]
            /\ app' = log(log(app, "Clicking"), "Failed to click")
    /\ UNCHANGED <<tests, pc, idx, results, passed, failed, caught, elapsed,
                   ops, sessions, browsers, calls, outcome, cliVars, page,
                   history, look>>

\* the page's own scripts add or remove an element while findElement waits
pageChanges(e) ==
    /\ find.pc = "probing"
    /\ history.changes < MaxChanges
    /\ page' = IF e \in page THEN page \ {e} ELSE page \cup {e}
    /\ history' = [stable |-> history.stable \cap page',
                   ever |-> history.ever \cup page',
                   changes |-> history.changes + 1]
    /\ UNCHANGED <<runnerVars, cliVars, find, look>>

FindNext ==
    \/ \E selector \in Tokens : click(selector)
    \/ probeResolves
    \/ probeTimesOut
    \/ probeRejects
    \/ pageClick
    \/ \E e \in Elements : pageChanges(e)

SpecFind == FindInit /\ [][FindNext]_vars


\* ----------------------------------------------------- claims on findElement
Resolved == find.pc \in {"returned", "clicked", "clickFailed"}
Finished == Resolved \/ find.pc = "thrown"

\* the candidates that docs/README.md (205-220) ranks above the name
\* attribute: the semantic shortcut and the testing attributes
RankedAboveName(selector) ==
    {SemanticSelector : t \in {selector} \cap {<<"submit">>, <<"Confirm">>}}
    \cup {AttrSelector(a, selector) :
             a \in {"data-testid", "data-test-id", "data-cy"}}

\* the token contains '.', '#', '[', a space or '>'
HasSelectorChar(selector) ==
    \E i \in DOMAIN selector : selector[i] \in {"[", ".", "#", " ", ">"}

RECURSIVE TimeWaited(_)
TimeWaited(tried) ==
    IF tried = <<>> THEN 0
    ELSE (IF Head(tried).outcome = "timeout" THEN Head(tried).timeout ELSE 0)
         + TimeWaited(Tail(tried))

RECURSIVE TotalTimeout(_)
TotalTimeout(probes) ==
    IF probes = <<>> THEN 0
    ELSE Head(probes).timeout + TotalTimeout(Tail(probes))

ReturnedSelectorMatchesEnabled ==
    find.pc = "returned" => QuerySelector(page, NotDisabled(find.result))

\* C14: the selector findElement returns matches an element at the moment of
\* return; when every element it matches is disabled, it was returned by a
\* probe that allows disabled elements, and for a candidate of the list that
\* is after the probe excluding them failed.
ReturnedSelectorMatches ==
    find.pc = "returned" =>
        LET n == Len(find.tried) IN
        /\ QuerySelector(page, find.result)
        /\ ~QuerySelector(page, NotDisabled(find.result)) =>
              /\ find.tried[n].stage \in {"direct", "exists", "final"}
              /\ find.tried[n].stage = "exists" =>
                    /\ find.tried[n - 1].stage = "enabled"
                    /\ find.tried[n - 1].returns = find.result
                    /\ find.tried[n - 1].outcome # "found"

ReturnedDisabledWitness ==
    /\ find.pc = "returned"
    /\ QuerySelector(page, find.result)
    /\ ~QuerySelector(page, NotDisabled(find.result))
    /\ find.tried[Len(find.tried)].stage = "exists"

SemanticShortcutFirst ==
    (/\ Finished
     /\ find.selector \in {<<"submit">>, <<"Confirm">>}
     /\ QuerySelector(history.stable, SemanticSelector)
     /\ \A i \in DOMAIN find.probes :
           find.probes[i].returns # SemanticSelector
           => ~QuerySelector(history.ever, find.probes[i].probe))
    => /\ Resolved
       /\ find.result = SemanticSelector
       /\ find.tried[1].probe = NotDisabled(SemanticSelector)
       /\ \A i \in DOMAIN find.tried :
             find.tried[i].returns = SemanticSelector

SemanticShortcutWitness ==
    /\ find.pc = "returned"
    /\ find.selector = <<"Confirm">>
    /\ QuerySelector(history.stable, SemanticSelector)
    /\ find.result = SemanticSelector
    /\ Len(find.tried) = 1

\* C17: for a token with a selector character, while an element matching
\* the token as a selector has been on the page since the call began,
\* findElement is still at its direct probe, and it returns the token
\* itself with no other probe made.
DirectProbeReturnsToken ==
    (/\ find.pc # "idle"
     /\ HasSelectorChar(find.selector)
     /\ QuerySelector(history.stable, find.selector))
    => /\ find.pc # "thrown"
       /\ find.k = 1
       /\ find.probes[1].stage = "direct"
       /\ Resolved => /\ find.result = find.selector
                      /\ Len(find.tried) = 1

DirectProbeWitness ==
    /\ find.pc = "returned"
    /\ find.selector = <<"#", "x">>
    /\ find.result = <<"#", "x">>
    /\ find.tried = <<[stage |-> "direct", probe |-> <<"#", "x">>,
                       returns |-> <<"#", "x">>,
                       timeout |-> DirectProbeTimeout, outcome |-> "found"]>>


\* ---------------------------------------------------------------------------
\* browser-app.js see (100-157)
\* ---------------------------------------------------------------------------

MaxTimeout == 2
MaxPolls == 3

\* a node of document.body: an element with one attribute (or none), its own
\* text and its child elements
Node(tag, attr, value, text, kids) ==
    [tag |-> tag, attr |-> attr, value |-> value, text |-> text,
     kids |-> kids, disabled |-> FALSE]

\* the bodies a page can show; each is the sequence of body's children
Bodies ==
    { <<>>,
      <<Node("h1", "none", <<>>, <<"Hello">>, <<>>)>>,
      <<Node("form", "none", <<>>, <<>>,
             <<Node("button", "none", <<>>, <<"Go">>, <<>>)>>)>>,
      <<Node("p", "none", <<>>, <<".", "btn">>, <<>>)>>,
      <<Node("p", "class", <<"btn">>, <<"Go">>, <<>>)>>,
      <<Node("div", "title", <<"tip">>, <<"x">>, <<>>)>>,
      <<Node("p", "none", <<>>, <<"say", " ", "\"", "hi", "\"">>, <<>>)>> }

Queries ==
    { <<"Hello">>, <<"hello">>, <<"h1">>, <<"form", " ", "button">>,
      <<".", "btn">>, <<"tip">>, <<"\"", "hi", "\"">>, <<"zzz">>,
      <<"[", "x">>, <<"\"", "HI", "\"">>,
      <<"<", "h1", ">", "Hello", "</", "h1", ">">>,
      <<"<", "title", ">", "Hello", "</", "title", ">">> }

\* String.prototype.includes
Includes(hay, needle) ==
    \E i \in 0..(Len(hay) - Len(needle)) :
        SubSeq(hay, i + 1, i + Len(needle)) = needle

\* String.prototype.toLowerCase
LowerChunk(c) ==
    IF c = "Hello" THEN "hello"
    ELSE IF c = "Go" THEN "go"
    ELSE IF c = "HI" THEN "hi" ELSE c
ToLowerCase(str) == [i \in DOMAIN str |-> LowerChunk(str[i])]

\* String.prototype.startsWith for a one-character prefix
StartsWith(str, c) == Len(str) > 0 /\ str[1] = c

RECURSIVE Concat(_, _)
\* the strings of a sequence joined with a separator
Concat(strs, sep) ==
    IF strs = <<>> THEN <<>>
    ELSE IF Len(strs) = 1 THEN strs[1]
    ELSE strs[1] \o sep \o Concat(Tail(strs), sep)

\* outerHTML of an element without children
LeafHTML(n) ==
    <<"<", n.tag>>
    \o (IF n.attr = "none" THEN <<>>
        ELSE <<" ", n.attr, "=", "\"">> \o n.value \o <<"\"">>)
    \o <<">">> \o n.text \o <<"</", n.tag, ">">>

\* outerHTML of a child of body
OuterHTML(n) ==
    <<"<", n.tag>>
    \o (IF n.attr = "none" THEN <<>>
        ELSE <<" ", n.attr, "=", "\"">> \o n.value \o <<"\"">>)
    \o <<">">> \o n.text
    \o Concat([i \in DOMAIN n.kids |-> LeafHTML(n.kids[i])], <<>>)
    \o <<"</", n.tag, ">">>

\* document.body.innerHTML
InnerHTML(body) == Concat([i \in DOMAIN body |-> OuterHTML(body[i])], <<>>)

\* the text nodes under body, in document order
TextNodes(body) ==
    LET own(n) == IF n.text = <<>> THEN <<>> ELSE <<n.text>>
        RECURSIVE of(_)
        of(ns) == IF ns = <<>> THEN <<>>
                  ELSE own(Head(ns)) \o of(Head(ns).kids) \o of(Tail(ns))
    IN of(body)

\* document.body.innerText: the rendered text, one line per block
InnerText(body) == Concat(TextNodes(body), <<"\n">>)

\* document.querySelector(query) for a compound selector or a descendant
\* selector `a b`, over the elements under body
Compound(query) == \A i \in DOMAIN query : query[i] # " "

ValidQuery(query) ==
    \/ Compound(query) /\ ValidSelector(query)
    \/ \E i \in DOMAIN query :
          /\ query[i] = " "
          /\ Compound(SubSeq(query, 1, i - 1))
          /\ ValidSelector(SubSeq(query, 1, i - 1))
          /\ Compound(SubSeq(query, i + 1, Len(query)))
          /\ ValidSelector(SubSeq(query, i + 1, Len(query)))

DocumentQuerySelector(body, query) ==
    IF Compound(query)
    THEN \E i \in DOMAIN body :
            \/ Matches(body[i], query)
            \/ \E j \in DOMAIN body[i].kids : Matches(body[i].kids[j], query)
    ELSE \E at \in DOMAIN query, i \in DOMAIN body :
            /\ query[at] = " "
            /\ Matches(body[i], SubSeq(query, 1, at - 1))
            /\ \E j \in DOMAIN body[i].kids :
                  Matches(body[i].kids[j], SubSeq(query, at + 1, Len(query)))


\* the <head> of every document the pages show: <title>Hello</title>
DocumentHead == <<Node("title", "none", <<>>, <<"Hello">>, <<>>)>>

\* the elements document.querySelector searches: those of head and of body
DocumentElements(body) == DocumentHead \o body

\* the markup of the loaded document
DocumentHTML(body) ==
    <<"<", "html", ">", "<", "head", ">">> \o InnerHTML(DocumentHead)
    \o <<"</", "head", ">", "<", "body", ">">> \o InnerHTML(body)
    \o <<"</", "body", ">", "</", "html", ">">>

\* a see() without strategy 3, the search of the body's markup
SeePredicateWithoutMarkup(body, searchText) ==
    IF /\ \/ StartsWith(searchText, ".")
          \/ StartsWith(searchText, "#")
          \/ Includes(searchText, <<"[">>)
       /\ ValidQuery(searchText)
    THEN \* 108-110: the value of querySelector(...) !== null is returned
         IF DocumentQuerySelector(DocumentElements(body), searchText) THEN "true" ELSE "false"
    ELSE IF Includes(InnerText(body), searchText) THEN "true"
    ELSE IF Includes(searchText, <<"\"">>)
    THEN \* 127: the quote ends the attribute value early, and
         \* querySelectorAll throws a SyntaxError that nothing catches
         "throws"
    ELSE IF LET all == DocumentElements(body) IN
            \E i \in DOMAIN all :
               \/ /\ all[i].attr \in {"aria-label", "aria-labelledby", "title"}
                  /\ Includes(all[i].value, searchText)
               \/ \E j \in DOMAIN all[i].kids :
                     /\ all[i].kids[j].attr
                            \in {"aria-label", "aria-labelledby", "title"}
                     /\ Includes(all[i].kids[j].value, searchText)
    THEN "true"
    ELSE IF \E i \in DOMAIN TextNodes(body) :
               Includes(ToLowerCase(TextNodes(body)[i]),
                        ToLowerCase(searchText))
    THEN "true"
    ELSE "false"

\* browser-app.js 106-148: the function see() hands to waitForFunction,
\* evaluated once on `body`; "throws" when an exception leaves the function
SeePredicate(body, searchText) ==
    IF /\ \/ StartsWith(searchText, ".")
          \/ StartsWith(searchText, "#")
          \/ Includes(searchText, <<"[">>)
       /\ ValidQuery(searchText)
    THEN \* 108-110: the value of querySelector(...) !== null is returned
         IF DocumentQuerySelector(DocumentElements(body), searchText) THEN "true" ELSE "false"
    ELSE IF Includes(InnerText(body), searchText) THEN "true"
    ELSE IF Includes(InnerHTML(body), searchText) THEN "true"
    ELSE IF Includes(searchText, <<"\"">>)
    THEN \* 127: the quote ends the attribute value early, and
         \* querySelectorAll throws a SyntaxError that nothing catches
         "throws"
    ELSE IF LET all == DocumentElements(body) IN
            \E i \in DOMAIN all :
               \/ /\ all[i].attr \in {"aria-label", "aria-labelledby", "title"}
                  /\ Includes(all[i].value, searchText)
               \/ \E j \in DOMAIN all[i].kids :
                     /\ all[i].kids[j].attr
                            \in {"aria-label", "aria-labelledby", "title"}
                     /\ Includes(all[i].kids[j].value, searchText)
    THEN "true"
    ELSE IF \E i \in DOMAIN TextNodes(body) :
               Includes(ToLowerCase(TextNodes(body)[i]),
                        ToLowerCase(searchText))
    THEN "true"
    ELSE "false"

\* browser-app.js 154
NotSeen == "Expected to see it but it was not found on the page"

\* sessions with options.timeout given, before and after init()
SeeSessions ==
    { IF active
      THEN log([NewBrowserApp(1, o) EXCEPT !.browser = 1, !.page = 1],
               "Browser initialized")
      ELSE NewBrowserApp(1, o) :
        o \in {[PlainOptions EXCEPT !.timeout = t] : t \in 1..MaxTimeout},
        active \in BOOLEAN }

\* a session, initialised or not; an initialised one shows some body
SeeInit ==
    /\ tests = <<>> /\ pc = "idle" /\ idx = 0 /\ results = <<>>
    /\ passed = 0 /\ failed = 0 /\ caught = NoCaught /\ elapsed = 0
    /\ ops = 0 /\ calls = <<>> /\ outcome = "pending"
    /\ sessions = 1
    /\ app \in SeeSessions
    /\ browsers = IF app.browser = Null THEN <<>>
                  ELSE <<[state |-> "open", closeCalls |-> 0, session |-> 1]>>
    /\ cli = NoCli
    /\ page \in IF app.page = Null THEN {<<>>} ELSE Bodies
    /\ history = [first |-> page, seen |-> {page}, changes |-> 0]
    /\ find = NoFind
    /\ look = NoLook

\* what see() leaves behind when waitForFunction resolves (150) or rejects
\* (151-155)
Seen(l, a, how, at) ==
    IF how = "true"
    THEN <<[l EXCEPT !.pc = "found", !.waited = at], log(a, "Found")>>
    ELSE <<[l EXCEPT !.pc = "failed", !.waited = at, !.error = NotSeen],
           log(a, "not found on page")>>

\* browser-app.js 100-105: see(text) logs and calls waitForFunction, which
\* evaluates the function at once; with no page the call itself throws
see(text) ==
    /\ look.pc = "idle"
    /\ LET l == [pc |-> "polling", query |-> text, waited |-> 0,
                 polls |-> IF app.page = Null THEN 0 ELSE 1,
                 error |-> NoError]
           a == log(app, "Looking for")
           how == IF app.page = Null THEN "throws"
                  ELSE SeePredicate(page, text)
       IN IF how = "false"
          THEN look' = l /\ app' = a
          ELSE look' = Seen(l, a, how, 0)[1] /\ app' = Seen(l, a, how, 0)[2]
    /\ history' = [first |-> page, seen |-> {page}, changes |-> 0]
    /\ UNCHANGED <<tests, pc, idx, results, passed, failed, caught, elapsed,
                   ops, sessions, browsers, calls, outcome, cliVars, page,
                   find>>

\* a waitForFunction / waitForSelector call with this timeout has a deadline;
\* puppeteer takes timeout 0 as "no timeout"
HasDeadline(timeout) == timeout # 0

\* the pending call polls again: its deadline is not reached, or it has none
\* (the polls of a call without deadline are counted up to MaxPolls)
PollsAgain(l, timeout) ==
    IF HasDeadline(timeout) THEN l.waited + 1 < timeout
    ELSE l.polls < MaxPolls

\* a wait that gives up without waiting
DeadlineAtOnce(l, timeout) == TRUE

\* the pending call's deadline is reached
DeadlineReached(l, timeout) ==
    HasDeadline(timeout) /\ l.waited + 1 >= timeout

\* waitForFunction evaluates the function again one polling interval later
seePolls ==
    /\ look.pc = "polling"
    /\ PollsAgain(look, app.timeout)
    /\ LET l == [look EXCEPT !.polls = @ + 1, !.waited = @ + 1]
           how == SeePredicate(page, look.query)
       IN IF how = "false"
          THEN look' = l /\ app' = app
          ELSE /\ look' = Seen(l, app, how, l.waited)[1]
               /\ app' = Seen(l, app, how, l.waited)[2]
    /\ UNCHANGED <<tests, pc, idx, results, passed, failed, caught, elapsed,
                   ops, sessions, browsers, calls, outcome, cliVars, page,
                   history, find>>

\* waitForFunction rejects with a TimeoutError once options.timeout is over
seeTimesOut ==
    /\ look.pc = "polling"
    /\ DeadlineReached(look, app.timeout)
    /\ look' = Seen(look, app, "timeout", app.timeout)[1]
    /\ app' = Seen(look, app, "timeout", app.timeout)[2]
    /\ UNCHANGED <<tests, pc, idx, results, passed, failed, caught, elapsed,
                   ops, sessions, browsers, calls, outcome, cliVars, page,
                   history, find>>

\* the page renders other content while see() polls
bodyChanges(body) ==
    /\ look.pc = "polling"
    /\ history.changes < MaxChanges
    /\ body # page
    /\ page' = body
    /\ history' = [history EXCEPT !.seen = @ \cup {body}, !.changes = @ + 1]
    /\ UNCHANGED <<runnerVars, cliVars, find, look>>

SeeNext ==
    \/ \E text \in Queries : see(text)
    \/ seePolls
    \/ seeTimesOut
    \/ \E body \in Bodies : bodyChanges(body)

SpecSee == SeeInit /\ [][SeeNext]_vars

\* ----------------------------------------------------------- claims on see
SeeDone == look.pc \in {"found", "failed"}

\* C18: see(query) with the query in the body's visible text when it is
\* called succeeds on the first poll; and see never fails before the
\* session's timeout has passed, whatever the query and the session's state.
SeeNoEarlyNegative ==
    /\ (look.pc # "idle" /\ app.page # Null
           /\ Includes(InnerText(history.first), look.query))
       => look.pc = "found" /\ look.polls = 1
    /\ look.pc = "failed" => look.waited >= app.timeout

SeeSucceedsOnSelector ==
    (/\ SeeDone
     /\ app.page # Null
     /\ ValidQuery(look.query)
     /\ \A b \in history.seen : DocumentQuerySelector(b, look.query))
    => look.pc = "found"


\* C21: when see(query) is over and the query was a fragment of the markup
\* of the loaded document during the whole call, the head included, see has
\* succeeded.
SeeSucceedsOnDocumentMarkup ==
    (/\ SeeDone
     /\ app.page # Null
     /\ \A b \in history.seen : Includes(DocumentHTML(b), look.query))
    => look.pc = "found"

\* a query that is a piece of markup: it begins with a tag
MarkupQuery(query) == StartsWith(query, "<")

\* C22: when see(query) is over, the query is a markup fragment and the
\* body's serialized HTML contained it during the whole call, see has
\* succeeded on its first poll, whether or not the visible text contains it.
SeeSucceedsOnBodyMarkup ==
    (/\ SeeDone
     /\ app.page # Null
     /\ MarkupQuery(look.query)
     /\ \A b \in history.seen : Includes(InnerHTML(b), look.query))
    => look.pc = "found" /\ look.polls = 1

SeeBodyMarkupWitness ==
    /\ look.pc = "found"
    /\ look.query = <<"<", "h1", ">", "Hello", "</", "h1", ">">>
    /\ Includes(InnerHTML(page), look.query)
    /\ ~Includes(InnerText(page), look.query)

\* C23: when see(query) is over and, during the whole call, some text node
\* under body contained the query when both are lower-cased, see has
\* succeeded.
SeeIgnoresCase ==
    (/\ SeeDone
     /\ app.page # Null
     /\ \A b \in history.seen :
           \E i \in DOMAIN TextNodes(b) :
              Includes(ToLowerCase(TextNodes(b)[i]), ToLowerCase(look.query)))
    => look.pc = "found"


\* ------------------------------------------ see() under every options.timeout
\* the timeouts a test's options can give a session, 0 included
PollSessions ==
    { log([NewBrowserApp(1, o) EXCEPT !.browser = 1, !.page = 1],
          "Browser initialized") :
        o \in {[PlainOptions EXCEPT !.timeout = t] : t \in 0..MaxTimeout} }

PollInit ==
    /\ tests = <<>> /\ pc = "idle" /\ idx = 0 /\ results = <<>>
    /\ passed = 0 /\ failed = 0 /\ caught = NoCaught /\ elapsed = 0
    /\ ops = 0 /\ calls = <<>> /\ outcome = "pending"
    /\ sessions = 1
    /\ app \in PollSessions
    /\ browsers = <<[state |-> "open", closeCalls |-> 0, session |-> 1]>>
    /\ cli = NoCli
    /\ page \in Bodies
    /\ history = [first |-> page, seen |-> {page}, changes |-> 0]
    /\ find = NoFind
    /\ look = NoLook

\* the browser keeps polling and keeps its timers running
SpecPoll ==
    /\ PollInit
    /\ [][SeeNext]_vars
    /\ WF_vars(seePolls)
    /\ WF_vars(seeTimesOut)

\* C26: a see() that has begun polling ends, with success or with failure,
\* whatever timeout the test's options gave the session.
SeeTerminates == (look.pc = "polling") ~> (look.pc \in {"found", "failed"})


\* ---------------------------------------------------------------------------
\* browser-app.js type (65-77) and click (83-94) as whole operations
\* ---------------------------------------------------------------------------

ActTokens == {<<"x">>, <<"2">>}
ActElements == { Element("input", "name", <<"x">>, FALSE),
                 Element("input", "name", <<"x">>, TRUE) }

\* browser-app.js 75
TypeFailed == "Failed to type into"
\* what puppeteer's focus() or click() rejects with when nothing matches
NoNodeFound == "No element found for selector"

\* an initialised session showing some page, no operation pending
ActInit ==
    /\ ActiveInit
    /\ page \in SUBSET ActElements
    /\ history = [stable |-> page, ever |-> page, changes |-> 0]
    /\ find = NoFind
    /\ look = NoLook

\* browser-app.js 65-66: type(selector, value) calls findElement(selector)
type(selector, value) ==
    /\ find.pc = "idle"
    /\ find' = [op |-> "type", pc |-> "probing", selector |-> selector,
                probes |-> Probes(selector), k |-> 1, tried |-> <<>>,
                waited |-> 0, result |-> <<>>, error |-> NoError]
    /\ history' = [stable |-> page, ever |-> page, changes |-> 0]
    /\ UNCHANGED <<runnerVars, cliVars, page, look>>

\* a type() that lets the error of page.focus through as it is
pageTypeUnwrapped ==
    /\ find.pc = "returned"
    /\ find.op = "type"
    /\ IF QuerySelector(page, find.result)
       THEN /\ find' = [find EXCEPT !.pc = "typed"]
            /\ app' = log(log(app, "Typing"), "Typed")
       ELSE /\ find' = [find EXCEPT !.pc = "typeFailed",
                                    !.error = NoNodeFound]
            /\ app' = log(app, "Typing")
    /\ UNCHANGED <<tests, pc, idx, results, passed, failed, caught, elapsed,
                   ops, sessions, browsers, calls, outcome, cliVars, page,
                   history, look>>

\* browser-app.js 67-76: the rest of type() once findElement has returned
pageType ==
    /\ find.pc = "returned"
    /\ find.op = "type"
    /\ IF QuerySelector(page, find.result)
       THEN /\ find' = [find EXCEPT !.pc = "typed"]
            /\ app' = log(log(app, "Typing"), "Typed")
       ELSE /\ find' = [find EXCEPT !.pc = "typeFailed",
                                    !.error = TypeFailed]
            /\ app' = log(log(app, "Typing"), "Failed to type into")
    /\ UNCHANGED <<tests, pc, idx, results, passed, failed, caught, elapsed,
                   ops, sessions, browsers, calls, outcome, cliVars, page,
                   history, look>>

\* the element is removed from the page after findElement has returned and
\* before the operation touches it
elementDetaches(e) ==
    /\ find.pc = "returned"
    /\ e \in page
    /\ page' = page \ {e}
    /\ UNCHANGED <<runnerVars, cliVars, history, find, look>>

ActNext ==
    \/ \E selector \in ActTokens : click(selector)
    \/ \E selector \in ActTokens : type(selector, "text")
    \/ probeResolves
    \/ probeTimesOut
    \/ probeRejects
    \/ pageClick
    \/ pageType
    \/ \E e \in ActElements : pageChanges(e)
    \/ \E e \in ActElements : elementDetaches(e)

SpecAct == ActInit /\ [][ActNext]_vars

\* the operation is over: it returned or it threw
ActDone ==
    find.pc \in {"thrown", "clicked", "clickFailed", "typed", "typeFailed"}
ActFailed == find.pc \in {"thrown", "clickFailed", "typeFailed"}

\* the message type() or click() wraps a failure in
InteractionError(op) == IF op = "click" THEN ClickFailed ELSE TypeFailed

\* C24 as stated: whenever type or click fails, the failure to resolve the
\* token included, the error is the operation's "Failed to ..." error.
InteractionErrorOnAnyFailure ==
    ActFailed => find.error = InteractionError(find.op)

\* C24: when the interaction with the resolved element fails, type and
\* click fail with their "Failed to ..." error; when the token cannot be
\* resolved, they fail with findElement's "Element ... not found" error,
\* and no selector was resolved.
InteractionErrorAfterResolution ==
    /\ find.pc \in {"clickFailed", "typeFailed"} =>
          /\ find.error = InteractionError(find.op)
          /\ find.result # <<>>
    /\ find.pc = "thrown" =>
          /\ find.error = ElementNotFound
          /\ find.result = <<>>

InteractionErrorWitness ==
    /\ find.pc = "typeFailed"
    /\ find.error = TypeFailed
    /\ ~QuerySelector(page, find.result)

\* C25: when a type or click operation is over, with success or with
\* failure, the session's log is longer than it was before the call.
OperationAlwaysLogs ==
    ActDone => Len(app.logs) > Len(ActiveSession.logs)


\* ---------------------------------------------------------------------------
\* browser-app.js seeElement (247-257) and seeAttribute (265-286)
\* ---------------------------------------------------------------------------

WaitBodies ==
    { <<>>,
      <<Node("h1", "none", <<>>, <<"Hello">>, <<>>)>>,
      <<Node("div", "title", <<"tip">>, <<"x">>, <<>>)>>,
      <<[Node("input", "disabled", <<>>, <<>>, <<>>)
            EXCEPT !.disabled = TRUE]>>,
      <<Node("input", "none", <<>>, <<>>, <<>>),
        Node("input", "title", <<"tip">>, <<>>, <<>>)>> }

\* seeElement(selector) arguments; "#2" is not a valid selector
ElementSelectors == {<<"h1">>, <<"input">>, <<"zzz">>, <<"#", "2">>}

\* seeAttribute(selector, attribute, expectedValue) arguments
AttributeChecks ==
    { <<<<"div">>, "title", <<"tip">>>>,
      <<<<"div">>, "title", <<>>>>,
      <<<<"input">>, "title", <<"tip">>>>,
      <<<<"input">>, "disabled", <<>>>>,
      <<<<"#", "2">>, "title", <<"tip">>>> }

\* browser-app.js 255 and 284
ElementNotSeen == "Expected to see element but it was not found on the page"
AttributeMismatch == "Expected element to have attribute"

\* the elements of the document in document order
RECURSIVE InOrder(_)
InOrder(nodes) ==
    IF nodes = <<>> THEN <<>>
    ELSE <<Head(nodes)>> \o InOrder(Head(nodes).kids) \o InOrder(Tail(nodes))

\* element.getAttribute(attr): null when the element has no such attribute
GetAttribute(e, attr) ==
    IF e.attr = attr THEN [null |-> FALSE, value |-> e.value]
    ELSE [null |-> TRUE, value |-> <<>>]

\* browser-app.js 270-275: the function seeAttribute hands to
\* waitForFunction; querySelector gives the first match in document order,
\* and `actualValue && ...` is falsy for null and for the empty string
AttributePredicate(body, sel, attr, expected) ==
    LET all == InOrder(DocumentElements(body))
        hits == {i \in DOMAIN all : Matches(all[i], sel)}
    IN IF ~ValidQuery(sel) THEN "throws"
       ELSE IF hits = {} THEN "false"
       ELSE LET element == all[CHOOSE i \in hits : \A j \in hits : i <= j]
                actualValue == GetAttribute(element, attr)
            IN IF actualValue.null \/ actualValue.value = <<>> THEN "false"
               ELSE IF Includes(actualValue.value, expected) THEN "true"
               ELSE "false"

\* browser-app.js 251: page.waitForSelector(selector) evaluated once
ElementPredicate(body, sel) ==
    IF ~ValidQuery(sel) THEN "throws"
    ELSE IF DocumentQuerySelector(DocumentElements(body), sel) THEN "true"
    ELSE "false"

\* the pending call's predicate on the page as it is now
WaitPredicate(l, body) ==
    IF l.op = "seeElement" THEN ElementPredicate(body, l.query)
    ELSE AttributePredicate(body, l.query, l.attribute, l.expected)

\* the error the pending call's catch block throws (255, 284)
WaitError(l) ==
    IF l.op = "seeElement" THEN ElementNotSeen ELSE AttributeMismatch

\* what seeElement / seeAttribute leave behind when the wait resolves
\* (252, 280) or rejects (253-256, 281-285)
Waited(l, a, how, at) ==
    IF how = "true"
    THEN <<[l EXCEPT !.pc = "found", !.waited = at], log(a, "Found")>>
    ELSE <<[l EXCEPT !.pc = "failed", !.waited = at, !.error = WaitError(l)],
           log(a, "not found")>>

\* an initialised session showing some body, no operation pending
WaitInit ==
    /\ tests = <<>> /\ pc = "idle" /\ idx = 0 /\ results = <<>>
    /\ passed = 0 /\ failed = 0 /\ caught = NoCaught /\ elapsed = 0
    /\ ops = 0 /\ calls = <<>> /\ outcome = "pending"
    /\ sessions = 1
    /\ app \in {a \in SeeSessions : a.page # Null}
    /\ browsers = <<[state |-> "open", closeCalls |-> 0, session |-> 1]>>
    /\ cli = NoCli
    /\ page \in WaitBodies
    /\ history = [first |-> page, seen |-> {page}, changes |-> 0]
    /\ find = NoFind
    /\ look = NoLook

\* the call logs and starts its wait, which evaluates the predicate at once
Begin(l) ==
    /\ look.pc = "idle"
    /\ LET a == log(app, "Looking for")
           how == WaitPredicate(l, page)
       IN IF how = "false"
          THEN look' = l /\ app' = a
          ELSE look' = Waited(l, a, how, 0)[1] /\ app' = Waited(l, a, how, 0)[2]
    /\ history' = [first |-> page, seen |-> {page}, changes |-> 0]
    /\ UNCHANGED <<tests, pc, idx, results, passed, failed, caught, elapsed,
                   ops, sessions, browsers, calls, outcome, cliVars, page,
                   find>>

\* browser-app.js 247-251
seeElement(selector) ==
    Begin([op |-> "seeElement", pc |-> "polling", query |-> selector,
           attribute |-> "", expected |-> <<>>, waited |-> 0, polls |-> 1,
           error |-> NoError])

\* browser-app.js 265-279
seeAttribute(selector, attribute, expectedValue) ==
    Begin([op |-> "seeAttribute", pc |-> "polling", query |-> selector,
           attribute |-> attribute, expected |-> expectedValue,
           waited |-> 0, polls |-> 1, error |-> NoError])

\* the wait evaluates its predicate again one polling interval later
waitPolls ==
    /\ look.pc = "polling"
    /\ PollsAgain(look, app.timeout)
    /\ LET l == [look EXCEPT !.polls = @ + 1, !.waited = @ + 1]
           how == WaitPredicate(look, page)
       IN IF how = "false"
          THEN look' = l /\ app' = app
          ELSE /\ look' = Waited(l, app, how, l.waited)[1]
               /\ app' = Waited(l, app, how, l.waited)[2]
    /\ UNCHANGED <<tests, pc, idx, results, passed, failed, caught, elapsed,
                   ops, sessions, browsers, calls, outcome, cliVars, page,
                   history, find>>

\* the wait rejects with a TimeoutError once options.timeout is over
waitTimesOut ==
    /\ look.pc = "polling"
    /\ DeadlineReached(look, app.timeout)
    /\ look' = Waited(look, app, "timeout", look.waited + 1)[1]
    /\ app' = Waited(look, app, "timeout", look.waited + 1)[2]
    /\ UNCHANGED <<tests, pc, idx, results, passed, failed, caught, elapsed,
                   ops, sessions, browsers, calls, outcome, cliVars, page,
                   history, find>>

WaitNext ==
    \/ \E selector \in ElementSelectors : seeElement(selector)
    \/ \E c \in AttributeChecks : seeAttribute(c[1], c[2], c[3])
    \/ waitPolls
    \/ waitTimesOut
    \/ \E body \in WaitBodies : bodyChanges(body)

SpecWait == WaitInit /\ [][WaitNext]_vars


\* ------------------------------------- claims on seeElement and seeAttribute
WaitDone == look.pc \in {"found", "failed"}

AttributeContains(body, sel, attr, expected) ==
    LET all == InOrder(DocumentElements(body))
        hits == {i \in DOMAIN all : Matches(all[i], sel)}
    IN /\ hits # {}
       /\ LET e == all[CHOOSE i \in hits : \A j \in hits : i <= j]
          IN e.attr = attr /\ Includes(e.value, expected)

\* C28: when seeAttribute is over, it has succeeded if the element's
\* attribute value contained the expected string during the whole call, and
\* it has failed with its mismatch error, after the timeout, if the value
\* never did.
AttributeSeenIffContained ==
    (WaitDone /\ look.op = "seeAttribute" /\ ValidQuery(look.query)) =>
        /\ (\A b \in history.seen :
               AttributeContains(b, look.query, look.attribute, look.expected))
           => look.pc = "found"
        /\ (\A b \in history.seen :
               ~AttributeContains(b, look.query, look.attribute, look.expected))
           => /\ look.pc = "failed"
              /\ look.error = AttributeMismatch
              /\ look.waited >= app.timeout


\* --------------------- viewport and screenshot (browser-app.js 187-232)
MaxCalls == 3        \* operations issued on the session

Widths == {375, 1920}
Heights == {667, 1080}
Paths == {"a.png", "missing/b.png"}

Viewport(width, height) == [width |-> width, height |-> height]

\* the viewport of a page puppeteer has just created
DefaultViewport == Viewport(800, 600)
NoViewport == Viewport(Null, Null)

\* the session holds no page
NoPage == [viewport |-> NoViewport]
NewPage == [viewport |-> DefaultViewport]

LaunchFailed == "Failed to launch the browser process"
SetFailed == "Failed to set resolution"
NotInitialized == "Browser not initialized. Call open() first."

\* a session just constructed, or one open() has initialised
OpsInit ==
    /\ tests = <<>> /\ pc = "idle" /\ idx = 0 /\ results = <<>>
    /\ passed = 0 /\ failed = 0 /\ caught = NoCaught /\ elapsed = 0
    /\ ops = 0 /\ calls = <<>> /\ outcome = "pending"
    /\ sessions = 1
    /\ cli = NoCli
    /\ find = NoFind
    /\ look = NoLook
    /\ \/ /\ app = NewBrowserApp(1, PlainOptions)
          /\ browsers = <<>>
          /\ page = NoPage
          /\ history = [files |-> {}, set |-> NoViewport, first |-> "none"]
       \/ /\ app = ActiveSession
          /\ browsers = <<[state |-> "open", closeCalls |-> 0, session |-> 1]>>
          /\ page = NewPage
          /\ history = [files |-> {}, set |-> NoViewport, first |-> "open"]

\* the first operation issued on the session
First(op) == IF history.first = "none" THEN op ELSE history.first

\* how the call that has just settled went, and what it found when it began
Call(op, how, value, error, captured) ==
    [op |-> op, pc |-> how, value |-> value, error |-> error,
     captured |-> captured, hadPage |-> app.page # Null,
     logs |-> app.logs, files |-> history.files,
     launched |-> Len(browsers)]

\* a setViewport that leaves the page as it was
SetViewportDropped(p, width, height) == p

\* browser-app.js 207: page.setViewport({ width, height }); the page keeps
\* the object and page.viewport() hands it back
SetViewport(p, width, height) ==
    [p EXCEPT !.viewport = Viewport(width, height)]

\* browser-app.js 202-213: resolution(width, height); init() comes first and
\* rejects when the browser cannot be launched, the browser may refuse the
\* viewport
resolution(width, height, launches, accepted) ==
    /\ ops < MaxCalls
    /\ ops' = ops + 1
    /\ app.browser # Null => launches
    /\ ~launches => accepted
    /\ IF ~launches
       THEN /\ look' = Call("resolution", "threw", NoViewport, LaunchFailed,
                            FALSE)
            /\ history' = [history EXCEPT !.first = First("resolution"),
                                          !.set = NoViewport]
            /\ UNCHANGED <<app, browsers, page>>
       ELSE LET a == log(init(app), "Setting resolution")
                p == IF app.page = Null THEN NewPage ELSE page
            IN /\ browsers' = Launched(app)
               /\ IF accepted
                  THEN /\ page' = SetViewport(p, width, height)
                       /\ app' = log(a, "Resolution set")
                       /\ look' = Call("resolution", "returned", NoViewport,
                                       NoError, FALSE)
                       /\ history' =
                              [history EXCEPT !.first = First("resolution"),
                                              !.set = Viewport(width, height)]
                  ELSE /\ page' = p
                       /\ app' = log(a, SetFailed)
                       /\ look' = Call("resolution", "threw", NoViewport,
                                       SetFailed, FALSE)
                       /\ history' =
                              [history EXCEPT !.first = First("resolution"),
                                              !.set = NoViewport]
    /\ UNCHANGED <<tests, pc, idx, results, passed, failed, caught, elapsed,
                   sessions, calls, outcome, cliVars, find>>

\* browser-app.js 219-232: getResolution()
getResolution ==
    /\ ops < MaxCalls
    /\ ops' = ops + 1
    /\ IF app.page = Null
       THEN /\ look' = Call("getResolution", "threw", NoViewport,
                            NotInitialized, FALSE)
            /\ app' = app
       ELSE /\ look' = Call("getResolution", "returned", page.viewport,
                            NoError, FALSE)
            /\ app' = log(app, "Current resolution")
    /\ history' = [history EXCEPT !.first = First("getResolution")]
    /\ UNCHANGED <<tests, pc, idx, results, passed, failed, caught, elapsed,
                   sessions, browsers, calls, outcome, cliVars, page, find>>

\* a screenshot whose catch block throws the capture's error again
ScreenshotRethrown(l, a) ==
    <<[l EXCEPT !.pc = "threw", !.error = "Failed to take screenshot"],
      log(a, "Failed to take screenshot")>>

\* browser-app.js 192-194: the catch block of screenshot only logs
ScreenshotCaught(l, a) ==
    <<[l EXCEPT !.pc = "returned"], log(a, "Failed to take screenshot")>>

\* browser-app.js 187-195: screenshot(path); the capture fails, for example,
\* when the directory of path does not exist
screenshot(path, captured) ==
    /\ ops < MaxCalls
    /\ ops' = ops + 1
    /\ app.page = Null => captured
    /\ LET l == Call("screenshot", "returned", NoViewport, NoError, captured)
       IN IF app.page = Null
          THEN /\ look' = [l EXCEPT !.captured = FALSE]
               /\ app' = app
               /\ history' = [history EXCEPT !.first = First("screenshot")]
          ELSE IF captured
          THEN /\ look' = l
               /\ app' = log(app, "Screenshot saved")
               /\ history' = [history EXCEPT !.first = First("screenshot"),
                                             !.files = @ \cup {path}]
          ELSE /\ look' = ScreenshotCaught(l, app)[1]
               /\ app' = ScreenshotCaught(l, app)[2]
               /\ history' = [history EXCEPT !.first = First("screenshot")]
    /\ UNCHANGED <<tests, pc, idx, results, passed, failed, caught, elapsed,
                   sessions, browsers, calls, outcome, cliVars, page, find>>

\* browser-app.js 34-41: cleanup() closes the browser and drops the page
cleanup ==
    /\ ops < MaxCalls
    /\ ops' = ops + 1
    /\ app.browser # Null
    /\ look' = Call("cleanup", "returned", NoViewport, NoError, FALSE)
    /\ app' = Cleaned(app)
    /\ browsers' = CloseCalled(app.browser, "ok")
    /\ page' = NoPage
    /\ history' = [history EXCEPT !.set = NoViewport]
    /\ UNCHANGED <<tests, pc, idx, results, passed, failed, caught, elapsed,
                   sessions, calls, outcome, cliVars, find>>

OpsNext ==
    \/ \E width \in Widths, height \in Heights, launches, accepted \in BOOLEAN :
          resolution(width, height, launches, accepted)
    \/ getResolution
    \/ \E path \in Paths, captured \in BOOLEAN : screenshot(path, captured)
    \/ cleanup

SpecOps == OpsInit /\ [][OpsNext]_vars

\* C29: when getResolution() returns after a resolution(w, h) that returned,
\* with no other resolution call and no cleanup in between, its value is
\* exactly {width: w, height: h}; this includes a session whose first
\* operation was that resolution call.
ResolutionRoundTrip ==
    (look.pc = "returned" /\ look.op = "getResolution"
        /\ history.set # NoViewport)
    => look.value = history.set

ResolutionRoundTripWitness ==
    /\ look.pc = "returned"
    /\ look.op = "getResolution"
    /\ history.first = "resolution"
    /\ history.set = Viewport(375, 1080)
    /\ look.value = history.set

\* C30: screenshot(path) always returns normally. On a session without a
\* page it changes neither the log nor the files; when the capture fails it
\* appends one log entry and writes no file.
ScreenshotNeverThrows ==
    (look.pc # "idle" /\ look.op = "screenshot") =>
        /\ look.pc = "returned"
        /\ ~look.hadPage =>
              /\ app.logs = look.logs
              /\ history.files = look.files
              /\ app.page = Null
        /\ (look.hadPage /\ ~look.captured) =>
              /\ app.logs = Append(look.logs, "Failed to take screenshot")
              /\ history.files = look.files

ScreenshotFailedWitness ==
    /\ look.pc = "returned"
    /\ look.op = "screenshot"
    /\ look.hadPage
    /\ ~look.captured
    /\ app.logs[Len(app.logs)] = "Failed to take screenshot"


\* ------------------------------------- the order of findElement's probes
\* the probes made so far for the candidates of the list
CandidateTried ==
    SelectSeq(find.tried, LAMBDA t : t.stage \in {"enabled", "exists"})

\* C31: the probes of the candidates are made in list order, for each
\* candidate first the one excluding disabled elements, then the one
\* allowing them; a probe is made only after every probe before it has
\* failed; when a probe succeeds findElement returns that candidate without
\* the :not([disabled]) suffix and makes no further probe.
CandidatesProbedInOrder ==
    find.pc # "idle" =>
        LET strategies == Strategies(find.selector)
            done == CandidateTried
        IN /\ Len(done) <= 2 * Len(strategies)
           /\ \A j \in DOMAIN done :
                 LET strategy == strategies[(j + 1) \div 2] IN
                 /\ done[j].returns = strategy
                 /\ done[j].stage = IF j % 2 = 1 THEN "enabled" ELSE "exists"
                 /\ done[j].probe = IF j % 2 = 1 THEN NotDisabled(strategy)
                                    ELSE strategy
           /\ \A i \in DOMAIN find.tried :
                 find.tried[i].outcome = "found" =>
                    /\ i = Len(find.tried)
                    /\ Resolved
                    /\ find.result = find.tried[i].returns
           /\ Resolved => find.tried[Len(find.tried)].outcome = "found"

CandidatesProbedWitness ==
    /\ find.pc = "returned"
    /\ find.selector = <<"x">>
    /\ Len(find.tried) = 8
    /\ find.tried[8].stage = "exists"
    /\ find.result = AttrSelector("name", <<"x">>)
    /\ find.tried[7].probe = NotDisabled(find.result)

\* C32: a final attempt is made only after both probes of every candidate
\* have failed, data-testid before aria-label; findElement throws only
\* after both final attempts have timed out, with no aria-label match on
\* the page; an element that turns up during a final attempt is resolved to
\* that attempt's selector.
FinalAttemptsAfterAllCandidates ==
    find.pc # "idle" =>
        LET n == Len(find.tried)
            testid == AttrSelector("data-testid", find.selector)
            aria == AttrSelector("aria-label", find.selector)
            finals == {i \in DOMAIN find.tried : find.tried[i].stage = "final"}
        IN /\ \A i \in finals :
                 /\ Len(CandidateTried) = 2 * Len(Strategies(find.selector))
                 /\ \A j \in 1..(i - 1) : find.tried[j].outcome # "found"
                 /\ i >= n - 1
                 /\ find.tried[i].probe =
                       IF i - 1 \in finals THEN aria ELSE testid
                 /\ find.tried[i].outcome = "found" =>
                       find.result = find.tried[i].probe
           /\ find.pc = "thrown" =>
                 /\ n >= 2
                 /\ {n - 1, n} \subseteq finals
                 /\ find.tried[n - 1].outcome = "timeout"
                 /\ find.tried[n].outcome = "timeout"
                 /\ ~QuerySelector(page, aria)

\* an element with the token as data-testid that was not there when the
\* call began is resolved by the first final attempt
FinalAttemptWitness ==
    /\ find.pc = "returned"
    /\ find.selector = <<"x">>
    /\ ~QuerySelector(history.stable, AttrSelector("data-testid", <<"x">>))
    /\ find.tried[Len(find.tried)].stage = "final"
    /\ find.result = AttrSelector("data-testid", <<"x">>)


\* ------------------------------ the options object (browser-app.js 8-17)
\* a JS value: its type and, for a number, its value (for a boolean 1 or 0,
\* for a string its length); "absent" stands for a key the object lacks
JsValue(t, v) == [t |-> t, v |-> v]
Absent == JsValue("absent", 0)
Undefined == JsValue("undefined", 0)
JsNull == JsValue("null", 0)
Num(n) == JsValue("number", n)
Bool(b) == JsValue("boolean", IF b THEN 1 ELSE 0)
Str(n) == JsValue("string", n)

\* the timeouts and headless values a test's options object may carry
TimeoutValues ==
    {Absent, Undefined, JsNull, Str(2)} \cup {Num(n) : n \in {-1, 0, 1, 5000, 10000}}
HeadlessValues ==
    {Absent, Undefined, JsNull, Bool(TRUE), Bool(FALSE), Str(3)}

\* ToBoolean(x)
Truthy(x) ==
    \/ x.t = "number" /\ x.v # 0
    \/ x.t = "boolean" /\ x.v = 1
    \/ x.t = "string" /\ x.v > 0

\* options.key: a key the object lacks reads as undefined
Get(x) == IF x = Absent THEN Undefined ELSE x

\* { ...defaults, ...options }: every own key of options, whatever its value,
\* replaces the default
Spread(default, x) == IF x = Absent THEN default ELSE x

\* browser-app.js 12-16: this.options
BrowserAppOptions(options) ==
    [headless |-> Spread(Bool(Get(options.headless) # Bool(FALSE)),
                         options.headless),
     timeout |-> Spread(IF Truthy(Get(options.timeout))
                        THEN Get(options.timeout) ELSE Num(DefaultTimeout),
                        options.timeout)]

OptionsInit ==
    /\ tests = <<>> /\ pc = "idle" /\ idx = 0 /\ results = <<>>
    /\ passed = 0 /\ failed = 0 /\ caught = NoCaught /\ elapsed = 0
    /\ ops = 0 /\ calls = <<>> /\ outcome = "pending"
    /\ sessions = 0
    /\ app = NoApp
    /\ browsers = <<>>
    /\ cli = NoCli
    /\ page = {}
    /\ history = <<>>
    /\ find = NoFind
    /\ look \in {[pc |-> "declared",
                  options |-> [headless |-> h, timeout |-> t]] :
                     h \in HeadlessValues, t \in TimeoutValues}

\* runner.js 64: new BrowserApp(test.options || {})
construct ==
    /\ look.pc = "declared"
    /\ sessions' = sessions + 1
    /\ look' = [pc |-> "constructed", options |-> look.options,
                effective |-> BrowserAppOptions(look.options)]
    /\ UNCHANGED <<tests, pc, idx, results, passed, failed, app, caught,
                   elapsed, ops, browsers, calls, outcome, cliVars, page,
                   history, find>>

\* browser-app.js 21-24: init() hands headless and timeout to
\* puppeteer.launch
launch ==
    /\ look.pc = "constructed"
    /\ browsers' = Append(browsers,
                          [state |-> "open", closeCalls |-> 0,
                           session |-> sessions,
                           headless |-> look.effective.headless,
                           timeout |-> look.effective.timeout])
    /\ look' = [look EXCEPT !.pc = "launched"]
    /\ UNCHANGED <<tests, pc, idx, results, passed, failed, app, caught,
                   elapsed, ops, sessions, calls, outcome, cliVars, page,
                   history, find>>

OptionsNext == construct \/ launch

SpecOptions == OptionsInit /\ [][OptionsNext]_vars

\* C33: the session's timeout is options.timeout when the options carry the
\* key and 5000 otherwise, headless is true unless the options carry
\* headless: false; whatever the options object, the timeout is a positive
\* number and headless is a boolean.
EffectiveOptionsWellFormed ==
    look.pc \in {"constructed", "launched"} =>
        /\ look.effective.timeout =
              IF look.options.timeout = Absent THEN Num(DefaultTimeout)
              ELSE look.options.timeout
        /\ look.effective.headless =
              Bool(look.options.headless # Bool(FALSE))
        /\ look.effective.timeout.t = "number"
        /\ look.effective.timeout.v > 0
        /\ look.effective.headless.t = "boolean"


\* ---------------------------------- the registry (index.js 4-64, runner.js)
MaxScript == 6       \* calls of latte, group, clearTests and runTests

GroupNames == {"g", "h"}
MaxDepth == 2        \* group() calls nested in one another

\* index.js 4-6 when the module is loaded; stack holds the pending group()
\* calls, each with its local previousGroup
\* cleared: clearTests() has been called and no group() since
NoRegistry == [currentGroup |-> "null", groups |-> <<>>, stack |-> <<>>,
               cleared |-> FALSE, last |-> "none"]

RegistryInit ==
    /\ RunnerInit
    /\ cli = NoCli
    /\ page = {}
    /\ find = NoFind
    /\ look = NoLook
    /\ history = NoRegistry

\* the script is at a point where it can call into index.js: the top level
\* of a test file, a group function or a test body
Scripting == pc \in {"idle", "body"} /\ ops < MaxScript

\* the name of the innermost group() call that is pending
Innermost ==
    IF history.stack = <<>> THEN "null"
    ELSE history.stack[Len(history.stack)].name

\* index.js 15-24: latte(description, testFn, options) with a current group
latteInGroup(description) ==
    /\ Scripting
    /\ ops' = ops + 1
    /\ tests' = Append(tests, [description |-> description,
                               group |-> history.currentGroup,
                               options |-> PlainOptions,
                               inside |-> Innermost,
                               afterClear |-> history.cleared])
    /\ history' = [history EXCEPT !.last = "latte"]
    /\ UNCHANGED <<pc, idx, results, passed, failed, app, caught, elapsed,
                   sessions, browsers, calls, outcome, cliVars, page, find,
                   look>>

\* index.js 31-36: group(name, groupFn) up to the call of groupFn
group(name) ==
    /\ Scripting
    /\ Len(history.stack) < MaxDepth
    /\ ops' = ops + 1
    /\ history' = [history EXCEPT
                      !.stack = Append(@, [name |-> name,
                                           previousGroup |->
                                               history.currentGroup]),
                      !.currentGroup = name,
                      !.groups = Append(@, name),
                      !.cleared = FALSE,
                      !.last = "group"]
    /\ UNCHANGED <<tests, pc, idx, results, passed, failed, app, caught,
                   elapsed, sessions, browsers, calls, outcome, cliVars, page,
                   find, look>>

\* index.js 36: groupFn() throws, line 38 is not reached
GroupThrew(h) ==
    [h EXCEPT !.stack = SubSeq(@, 1, Len(@) - 1), !.last = "groupThrew"]

\* index.js 36-39: groupFn() returns
groupReturns ==
    /\ pc \in {"idle", "body"}
    /\ history.stack # <<>>
    /\ history' = [history EXCEPT
                      !.stack = SubSeq(@, 1, Len(@) - 1),
                      !.currentGroup =
                          history.stack[Len(history.stack)].previousGroup,
                      !.last = "groupReturned"]
    /\ UNCHANGED <<runnerVars, cliVars, page, find, look>>

\* groupFn() throws and the caller of group() catches the error
groupThrows ==
    /\ pc \in {"idle", "body"}
    /\ history.stack # <<>>
    /\ history' = GroupThrew(history)
    /\ UNCHANGED <<runnerVars, cliVars, page, find, look>>

\* index.js 60-64
clearTests ==
    /\ Scripting
    /\ ops' = ops + 1
    /\ tests' = <<>>
    /\ history' = [history EXCEPT !.groups = <<>>, !.currentGroup = "null",
                                  !.cleared = TRUE, !.last = "clearTests"]
    /\ UNCHANGED <<pc, idx, results, passed, failed, app, caught, elapsed,
                   sessions, browsers, calls, outcome, cliVars, page, find,
                   look>>

\* index.js 45-48, runner.js 16-21: runTests() hands the registry array
\* itself to runAll
runTests ==
    /\ pc = "idle"
    /\ history.stack = <<>>
    /\ ops < MaxScript
    /\ ops' = ops + 1
    /\ pc' = "loop"
    /\ idx' = 0
    /\ results' = <<>>
    /\ passed' = 0
    /\ failed' = 0
    /\ look' = [pc |-> "running", atCall |-> tests, test |-> "none",
                afterClear |-> history.last = "clearTests"]
    /\ history' = [history EXCEPT !.last = "runTests"]
    /\ UNCHANGED <<tests, app, caught, elapsed, sessions, browsers, calls,
                   outcome, cliVars, page, find>>

\* runner.js 23-24: the array iterator yields tests[idx] as long as idx is
\* below the array's length at that moment
runNext ==
    /\ pc = "loop"
    /\ idx < Len(tests)
    /\ idx' = idx + 1
    /\ pc' = "body"
    /\ look' = [look EXCEPT !.test = tests[idx + 1].description]
    /\ UNCHANGED <<tests, results, passed, failed, app, caught, elapsed, ops,
                   sessions, browsers, calls, outcome, cliVars, page, history,
                   find>>

\* runner.js 24-34: runSingle has returned the result of the body
bodyEnds(ok) ==
    /\ pc = "body"
    /\ history.stack = <<>>
    /\ results' = Append(results, [description |-> look.test,
                                   passed |-> ok])
    /\ passed' = IF ok THEN passed + 1 ELSE passed
    /\ failed' = IF ok THEN failed ELSE failed + 1
    /\ pc' = "loop"
    /\ UNCHANGED <<tests, idx, app, caught, elapsed, ops, sessions, browsers,
                   calls, outcome, cliVars, pageVars>>

\* runner.js 23, 37-50: the iterator is done, runAll returns
runTestsReturns ==
    /\ pc = "loop"
    /\ idx >= Len(tests)
    /\ pc' = "idle"
    /\ look' = [look EXCEPT !.pc = "returned"]
    /\ history' = [history EXCEPT !.last = "returned"]
    /\ UNCHANGED <<tests, idx, results, passed, failed, app, caught, elapsed,
                   ops, sessions, browsers, calls, outcome, cliVars, page,
                   find>>

RegistryNext ==
    \/ \E description \in Descriptions : latteInGroup(description)
    \/ \E name \in GroupNames : group(name)
    \/ groupReturns
    \/ groupThrows
    \/ clearTests
    \/ runTests
    \/ runNext
    \/ \E ok \in BOOLEAN : bodyEnds(ok)
    \/ runTestsReturns

SpecRegistry == RegistryInit /\ [][RegistryNext]_vars


\* C34: right after clearTests() the registry is empty and the current
\* group is null; a runTests() that follows it returns no result, passed 0
\* and failed 0; a test declared after a clearTests() with no group() call
\* made since, outside every group, carries group null.
ClearTestsResets ==
    /\ history.last = "clearTests" =>
          tests = <<>> /\ history.currentGroup = "null"
    /\ (look.pc = "returned" /\ look.afterClear) =>
          results = <<>> /\ passed = 0 /\ failed = 0
    /\ \A i \in DOMAIN tests :
          (tests[i].afterClear /\ tests[i].inside = "null")
          => tests[i].group = "null"

\* C35: every test declared inside a group carries the name of the
\* innermost group() call pending at its declaration, a test declared
\* outside every group carries null, and with no group() call pending the
\* current group is null again, whether the group functions returned or
\* threw.
GroupIsInnermostAndRestored ==
    /\ \A i \in DOMAIN tests : tests[i].group = tests[i].inside
    /\ history.stack = <<>> => history.currentGroup = "null"

\* C38: when runTests() returns, there is one result for each declaration
\* the registry held when it was called, in the order of the registry,
\* whatever the test bodies declared or cleared during the run.
RunsRegistryAsCalled ==
    history.last = "returned" =>
        /\ Len(results) = Len(look.atCall)
        /\ \A i \in DOMAIN results :
              results[i].description = look.atCall[i].description


\* ------------------- operations on a session without a page (browser-app.js)
\* the operations that never call init()
PageOps == {"see", "seeElement", "seeAttribute", "click", "type", "wait",
            "getContent", "getCurrentUrl"}

\* an operation that returns normally whatever the session holds
AlwaysReturns(op) == [how |-> "returned", error |-> NoError, logs |-> <<>>]

\* what the operation does when this.page is null: this.page.waitFor... is a
\* TypeError, thrown inside the try blocks of see (103-155), seeElement
\* (250-256) and seeAttribute (268-285) and inside every try of findElement
\* (303-366), which click (84) and type (66) call before they log; wait
\* (238-241) does not touch the page; getContent and getCurrentUrl return ''
\* (163, 175)
WithoutPage(op) ==
    CASE op = "see" ->
            [how |-> "threw", error |-> NotSeen,
             logs |-> <<"Looking for", "not found on page">>]
      [] op = "seeElement" ->
            [how |-> "threw", error |-> ElementNotSeen,
             logs |-> <<"Looking for", "not found">>]
      [] op = "seeAttribute" ->
            [how |-> "threw", error |-> AttributeMismatch,
             logs |-> <<"Looking for", "not found">>]
      [] op \in {"click", "type"} ->
            [how |-> "threw", error |-> ElementNotFound, logs |-> <<>>]
      [] op = "wait" ->
            [how |-> "returned", error |-> NoError, logs |-> <<"Waiting">>]
      [] OTHER ->
            [how |-> "returned", error |-> NoError, logs |-> <<>>]

\* one of these operations, issued while the session holds no page
pageless(op) ==
    /\ ops < MaxCalls
    /\ ops' = ops + 1
    /\ app.page = Null
    /\ look' = Call(op, WithoutPage(op).how, NoViewport, WithoutPage(op).error,
                    FALSE)
    /\ app' = [app EXCEPT !.logs = @ \o WithoutPage(op).logs]
    /\ history' = [history EXCEPT !.first = First(op)]
    /\ UNCHANGED <<tests, pc, idx, results, passed, failed, caught, elapsed,
                   sessions, browsers, calls, outcome, cliVars, page, find>>

\* browser-app.js 47-58: open(url); init() comes first and rejects when the
\* browser cannot be launched, the navigation may fail
openUrl(url, launches, loaded) ==
    /\ ops < MaxCalls
    /\ ops' = ops + 1
    /\ app.browser # Null => launches
    /\ ~launches => loaded
    /\ history' = [history EXCEPT !.first = First("open")]
    /\ IF ~launches
       THEN /\ look' = Call("open", "threw", NoViewport, LaunchFailed, FALSE)
            /\ UNCHANGED <<app, browsers, page>>
       ELSE /\ browsers' = Launched(app)
            /\ page' = IF app.page = Null THEN NewPage ELSE page
            /\ IF loaded
               THEN /\ app' = log(log(init(app), "Opening"), "Opened")
                    /\ look' = Call("open", "returned", NoViewport, NoError,
                                    FALSE)
               ELSE /\ app' = log(log(init(app), "Opening"), "Failed to open")
                    /\ look' = Call("open", "threw", NoViewport,
                                    ErrOpen.message, FALSE)
    /\ UNCHANGED <<tests, pc, idx, results, passed, failed, caught, elapsed,
                   sessions, calls, outcome, cliVars, find>>

FreshNext ==
    \/ \E op \in PageOps : pageless(op)
    \/ \E url \in Urls, launches, loaded \in BOOLEAN :
          openUrl(url, launches, loaded)
    \/ \E width \in Widths, height \in Heights, launches, accepted \in BOOLEAN :
          resolution(width, height, launches, accepted)
    \/ getResolution
    \/ \E path \in Paths, captured \in BOOLEAN : screenshot(path, captured)
    \/ cleanup

SpecFresh == OpsInit /\ [][FreshNext]_vars

\* C36: an operation issued on a session without a page, other than open
\* and resolution, launches no browser and leaves browser and page null;
\* see, seeElement, seeAttribute, click, type and getResolution end by
\* throwing, wait and screenshot by returning.
OnlyOpenAndResolutionInitialize ==
    (look.pc # "idle" /\ ~look.hadPage /\ look.op \notin {"open", "resolution"})
    => /\ app.browser = Null
       /\ app.page = Null
       /\ Len(browsers) = look.launched
       /\ look.op \in {"see", "seeElement", "seeAttribute", "click", "type",
                       "getResolution"} => look.pc = "threw"
       /\ look.op \in {"wait", "screenshot"} => look.pc = "returned"

\* click on a session that was initialised and then cleaned up
ClickAfterCleanupWitness ==
    /\ look.pc = "threw"
    /\ look.op = "click"
    /\ ~look.hadPage
    /\ app.logs # <<>>
    /\ app.logs[Len(app.logs)] = "Browser closed"
    /\ look.error = ElementNotFound


\* -------------- operations that are not awaited (browser-app.js 19-58, 202)
\* One session; the test body issues open() and resolution() calls without
\* awaiting them, so that each call runs up to its next await and the calls
\* interleave there. calls holds the pending calls, each with the browser
\* its own puppeteer.launch gave it.
RaceInit ==
    /\ tests = <<>> /\ pc = "body" /\ idx = 0 /\ results = <<>>
    /\ passed = 0 /\ failed = 0 /\ caught = NoCaught /\ elapsed = 0
    /\ ops = 0 /\ calls = <<>> /\ outcome = "pending"
    /\ sessions = 1
    /\ app = NewBrowserApp(1, PlainOptions)
    /\ browsers = <<>>
    /\ cli = NoCli
    /\ page = {}
    /\ history = [cleanups |-> 0]
    /\ find = NoFind
    /\ look = NoLook

\* browser-app.js 20-21: init() finds this.browser null and calls
\* puppeteer.launch, or finds a browser and goes on at once
Issued(op) ==
    IF app.browser = Null
    THEN [op |-> op, pc |-> "launching", browser |-> Len(browsers) + 1]
    ELSE [op |-> op, pc |-> "page", browser |-> app.browser]

\* the body calls app.open(url) or app.resolution(w, h) and does not await it
issue(op) ==
    /\ pc = "body"
    /\ Len(calls) < MaxCalls
    /\ calls' = Append(calls, Issued(op))
    /\ browsers' = Launched(app)
    /\ UNCHANGED <<tests, pc, idx, results, passed, failed, app, caught,
                   elapsed, ops, sessions, outcome, cliVars, pageVars>>

\* browser-app.js 21-25: the launch of call i resolves; this.browser is
\* assigned (page.newPage and the assignment of this.page follow here)
launchResolves(i) ==
    /\ calls[i].pc = "launching"
    /\ app' = log([app EXCEPT !.browser = calls[i].browser,
                              !.page = calls[i].browser],
                  "Browser initialized")
    /\ calls' = [calls EXCEPT ![i].pc = "page"]
    /\ UNCHANGED <<tests, pc, idx, results, passed, failed, caught, elapsed,
                   ops, sessions, browsers, outcome, cliVars, pageVars>>

\* browser-app.js 51-52, 207-208: page.goto / page.setViewport of call i
\* settles; with this.page null the call throws
pageSettles(i) ==
    /\ calls[i].pc = "page"
    /\ calls' = [calls EXCEPT ![i].pc = IF app.page = Null THEN "threw"
                                        ELSE "returned"]
    /\ app' = log(app, calls[i].op)
    /\ UNCHANGED <<tests, pc, idx, results, passed, failed, caught, elapsed,
                   ops, sessions, browsers, outcome, cliVars, pageVars>>

\* the body returns (whether or not its calls have settled) and runSingle
\* calls cleanup(): browser-app.js 34-41
bodyReturnsCleanup ==
    /\ pc = "body"
    /\ pc' = "cleaned"
    /\ history' = [cleanups |-> history.cleanups + 1]
    /\ IF app.browser # Null
       THEN /\ browsers' = CloseCalled(app.browser, "ok")
            /\ app' = Cleaned(app)
       ELSE UNCHANGED <<browsers, app>>
    /\ UNCHANGED <<tests, idx, results, passed, failed, caught, elapsed, ops,
                   sessions, calls, outcome, cliVars, page, find, look>>

RaceNext ==
    \/ \E op \in {"open", "resolution"} : issue(op)
    \/ \E i \in DOMAIN calls : launchResolves(i)
    \/ \E i \in DOMAIN calls : pageSettles(i)
    \/ bodyReturnsCleanup

SpecRace == RaceInit /\ [][RaceNext]_vars

OpenBrowsers == {b \in DOMAIN browsers : browsers[b].state = "open"}

\* C37: the session has launched at most one browser, and after cleanup,
\* once every call has settled, no browser it launched is still open.
AtMostOneBrowser ==
    /\ Len(browsers) <= 1
    /\ (/\ pc = "cleaned"
        /\ \A i \in DOMAIN calls : calls[i].pc \in {"returned", "threw"})
       => OpenBrowsers = {}

====
